---- MODULE Spec2Model ----
(***************************************************************************)
(* The agent host of tuncheva/Ecosystem: the orchestration run of          *)
(* src/app/run_workflow.py (run_order_workflow) and of src/host_agent.py   *)
(* (_run_agent).  One run starts two MCP stdio sessions, builds the tool   *)
(* catalog, drives the gateway/tool loop for at most ten turns and tears   *)
(* the sessions down in a finally block.                                   *)
(*                                                                         *)
(* Python dicts are functions on their keys (a missing key is a value      *)
(* outside the DOMAIN), lists are sequences, strings are strings.          *)
(***************************************************************************)
EXTENDS Integers, Sequences, FiniteSets, TLC

VARIABLES
    scenario,     \* the environment: which tool servers and which gateway answer
    impl,         \* which implementation runs: "run_workflow" or "host_agent"
    pc,           \* control point of the run
    cur,          \* index of the loop over servers / sessions / channels
    stdio_cm,     \* dict stdio_cm, as the sequence of its keys in insertion order
    sessions,     \* dict sessions, as the sequence of its keys in insertion order
    cmEntered,    \* servers whose channel (stdio_client context) was opened
    sessEntered,  \* servers whose ClientSession context was entered
    cmExits,      \* per server: number of cm.__aexit__ calls
    sessExits,    \* per server: number of session.__aexit__ calls
    stopRaised,   \* the __aexit__ calls of stop_all that raised (and were swallowed)
    tool_index,   \* dict safe_name -> <<server_name, local tool name>>
    tools,        \* the tool descriptors sent to the gateway
    messages,     \* the conversation
    turn,         \* iterations of `for _ in range(10)` begun
    tool_calls,   \* the normalized tool calls of the current turn
    idx,          \* index of the tool call being processed
    outcome,      \* how the try block was left: returned value or raised error
    requests,     \* HTTP requests made to the gateway host, in order
    invocations,  \* session.call_tool calls made, in order
    events,       \* events handed to the event sink, in order
    gateway_json, \* the JSON body of the last successful exchange (<<>> before it)
    scriptUsed,   \* the scripted gateway: freely chosen tool-requesting replies so far
    sink_raised,  \* some call of the event sink has raised
    listings,     \* session.list_tools calls made, in order, by server name
    RUNS          \* web_app._RUNS: the run records, by run id

vars == <<scenario, impl, pc, cur, stdio_cm, sessions, cmEntered, sessEntered, cmExits,
          sessExits, stopRaised, tool_index, tools, messages, turn, tool_calls,
          idx, outcome, requests, invocations, events, gateway_json, scriptUsed,
          sink_raised, listings, RUNS>>

(***************************************************************************)
(* Bounds of the environment.                                              *)
(***************************************************************************)
\* The gateway script: the first ScriptLen tool-requesting replies are chosen
\* freely among the scripted replies; afterwards the gateway repeats its last one.
\* At every turn it may instead answer without tool calls, or fail.
ScriptLen == 2
\* Largest number of tool-call entries in one scripted gateway reply.
MaxCalls == 2
\* Longest local tool name an arbitrary tool server announces.
MaxNameLen == 1
\* Largest number of runs created through the web layer.
MaxRuns == 3

(***************************************************************************)
(* Program constants.                                                      *)
(***************************************************************************)
\* Mutation of MaxTurns: the loop is written range(11)
MaxTurnsOffByOne == 10 + 1
\* for _ in range(10)
MaxTurns == 10
\* if resp.status_code >= 400
ErrorStatus == 400

Crm == "crm"
Email == "email"
\* servers: list[MCPServerSpec], by name
servers == <<Crm, Email>>

\* Python's None, where a string is expected
None == "<None>"

(***************************************************************************)
(* Python helpers.                                                         *)
(***************************************************************************)
\* d.get(k)
Get(d, k) == IF k \in DOMAIN d THEN d[k] ELSE None

\* v or default, for a string (or None) v
OrStr(v, default) == IF v = None \/ v = "" THEN default ELSE v

\* d.get(k) or [] for a list-valued key
GetList(d, k) == IF k \in DOMAIN d THEN d[k] ELSE <<>>

\* d.get(k) or {} for a dict-valued key
GetDict(d, k) == IF k \in DOMAIN d THEN d[k] ELSE <<>>

\* d[k] = v
DictSet(d, k, v) == [x \in DOMAIN d \cup {k} |-> IF x = k THEN v ELSE d[x]]

\* the characters of s from position i on, with every a replaced by b
RECURSIVE ReplaceFrom(_, _, _, _)
ReplaceFrom(s, i, a, b) ==
    IF i > Len(s) THEN ""
    ELSE (IF SubSeq(s, i, i) = a THEN b ELSE SubSeq(s, i, i)) \o ReplaceFrom(s, i + 1, a, b)

\* s.replace(a, b), for a single character a
Replace(s, a, b) == ReplaceFrom(s, 1, a, b)

\* Mutation of Truncate: the text is not cut
TruncateNone(s, n) == s
\* s[:n]
Truncate(s, n) == IF Len(s) <= n THEN s ELSE SubSeq(s, 1, n)

(***************************************************************************)
(* json.loads and json.dumps, on the texts and values the run meets.       *)
(***************************************************************************)
ArgsOrder == "{\"orderId\": \"XYZ-789\"}"
ArgsEmail == "{\"email\": \"customer@example.com\"}"
ArgsEmpty == "{}"
ArgsMalformed == "{orderId: XYZ-789"
\* JSON texts that do not denote an object
ArgsList == "[1]"
ArgsNumber == "5"
ArgsNull == "null"
ArgsString == "\"x\""

\* The JSON texts among the argument strings, with the value each denotes.
JsonText ==
    (ArgsOrder :> [type |-> "dict", value |-> [orderId |-> "XYZ-789"]])
    @@ (ArgsEmail :> [type |-> "dict", value |-> [email |-> "customer@example.com"]])
    @@ (ArgsEmpty :> [type |-> "dict", value |-> <<>>])
    @@ (ArgsList :> [type |-> "list", value |-> <<1>>])
    @@ (ArgsNumber :> [type |-> "int", value |-> 5])
    @@ (ArgsNull :> [type |-> "NoneType", value |-> None])
    @@ (ArgsString :> [type |-> "str", value |-> "x"])

\* json.loads(s): the value, or JSONDecodeError
json_loads(s) ==
    IF s \in DOMAIN JsonText THEN [ok |-> TRUE, value |-> JsonText[s]]
    ELSE [ok |-> FALSE]

\* the escaping json.dumps applies inside a string
JsonEscape(s) == Replace(s, "\"", "\\\"")

\* json.dumps of {"type": ..., "text": ...}
DumpsItem(c) ==
    "{\"type\": \"" \o JsonEscape(c.type) \o "\", \"text\": "
        \o (IF c.text = None THEN "null" ELSE "\"" \o JsonEscape(c.text) \o "\"")
        \o "}"

RECURSIVE DumpsItems(_)
DumpsItems(cs) ==
    IF cs = <<>> THEN ""
    ELSE DumpsItem(Head(cs)) \o (IF Len(cs) > 1 THEN ", " ELSE "") \o DumpsItems(Tail(cs))

\* json.dumps(result) for the two results the loop builds
json_dumps(result) ==
    IF "error" \in DOMAIN result
    THEN "{\"error\": \"" \o JsonEscape(result.error) \o "\"}"
    ELSE "{\"content\": [" \o DumpsItems(result.content) \o "]}"

(***************************************************************************)
(* _extract_assistant_and_tool_calls                                       *)
(***************************************************************************)
\* the default of a missing tool-call id
DefaultCallId == "toolcall_1"
\* the preview length of the fallback text
PreviewLen == 2000

\* Mutation of NormalizeChoicesCall: the entry's fields are taken as they come,
\* without defaults
NormalizeChoicesCallRaw(tc) ==
    LET fn == GetDict(tc, "function")
    IN  [id |-> Get(tc, "id"),
         name |-> OrStr(Get(fn, "name"), ""),
         arguments |-> Get(fn, "arguments")]

\* one entry of the OpenAI-like shape: {id, function: {name, arguments}}
NormalizeChoicesCall(tc) ==
    LET fn == GetDict(tc, "function")
    IN  [id |-> OrStr(Get(tc, "id"), DefaultCallId),
         name |-> OrStr(Get(fn, "name"), ""),
         arguments |-> OrStr(Get(fn, "arguments"), "{}")]

\* one entry of the custom shape: {id, name, arguments}
NormalizeFlatCall(tc) ==
    [id |-> OrStr(Get(tc, "id"), DefaultCallId),
     name |-> OrStr(Get(tc, "name"), ""),
     arguments |-> OrStr(Get(tc, "arguments"), "{}")]

\* json.dumps of a list of n zeros, without the brackets: "0, 0, ..., 0"
RECURSIVE DumpsZeros(_)
DumpsZeros(n) ==
    IF n = 0 THEN ""
    ELSE IF n = 1 THEN "0"
    ELSE LET half == DumpsZeros(n \div 2)
         IN  half \o ", " \o half \o (IF n % 2 = 1 THEN ", 0" ELSE "")

\* json.dumps(gateway_json) of a response of neither shape
DumpsGateway(gj) ==
    IF "data" \in DOMAIN gj
    THEN "{\"data\": [" \o DumpsZeros(Len(gj.data)) \o "]}"
    ELSE IF "message" \in DOMAIN gj
    THEN "{\"message\": \"" \o JsonEscape(gj.message) \o "\"}"
    ELSE IF "content" \in DOMAIN gj
    THEN "{\"content\": \"" \o JsonEscape(gj.content) \o "\"}"
    ELSE IF "choices" \in DOMAIN gj
    THEN "{\"choices\": []}"
    ELSE "{}"

\* Mutation of extract_assistant_and_tool_calls: the custom shape is tried first
extract_flat_first(gj) ==
    IF "content" \in DOMAIN gj /\ "tool_calls" \in DOMAIN gj
    THEN [text |-> OrStr(Get(gj, "content"), ""),
          calls |-> LET tcs == GetList(gj, "tool_calls")
                    IN  [i \in 1..Len(tcs) |-> NormalizeFlatCall(tcs[i])]]
    ELSE IF "choices" \in DOMAIN gj /\ gj.choices # <<>>
    THEN LET msg == GetDict(gj.choices[1], "message")
         IN  [text |-> OrStr(Get(msg, "content"), ""),
              calls |-> LET tcs == GetList(msg, "tool_calls")
                        IN  [i \in 1..Len(tcs) |-> NormalizeChoicesCall(tcs[i])]]
    ELSE [text |-> Truncate(DumpsGateway(gj), PreviewLen), calls |-> <<>>]

extract_assistant_and_tool_calls(gj) ==
    IF "choices" \in DOMAIN gj /\ gj.choices # <<>>
    THEN LET msg == GetDict(gj.choices[1], "message")
         IN  [text |-> OrStr(Get(msg, "content"), ""),
              calls |-> LET tcs == GetList(msg, "tool_calls")
                        IN  [i \in 1..Len(tcs) |-> NormalizeChoicesCall(tcs[i])]]
    ELSE IF "content" \in DOMAIN gj /\ "tool_calls" \in DOMAIN gj
    THEN [text |-> OrStr(Get(gj, "content"), ""),
          calls |-> LET tcs == GetList(gj, "tool_calls")
                    IN  [i \in 1..Len(tcs) |-> NormalizeFlatCall(tcs[i])]]
    ELSE [text |-> Truncate(DumpsGateway(gj), PreviewLen), calls |-> <<>>]

(***************************************************************************)
(* The environment: the tool servers and the scripted gateway.             *)
(***************************************************************************)
\* tool_list.tools of each server (crm_server.py, email_server.py)
ServerTools(server_name) ==
    IF server_name = Crm
    THEN <<[name |-> "getCustomerEmail",
            description |-> "Look up a customer's email address by order id.\n",
            inputSchema |-> [type |-> "object", required |-> <<"order_id">>]]>>
    ELSE <<[name |-> "sendShippingConfirmation",
            description |-> "Send a shipping confirmation email.\n",
            inputSchema |-> <<>>]>>

\* The characters of the local tool names of an arbitrary tool server: letters,
\* '-' and '_', and characters outside ^[a-zA-Z0-9_-]+$.
Alphabet == {"a", "-", "_", ".", " ", "/", ":"}

\* the strings over Alphabet of length n
RECURSIVE Words(_)
Words(n) == IF n = 0 THEN {""} ELSE {c \o w : c \in Alphabet, w \in Words(n - 1)}

\* the local tool names an arbitrary server may announce
ToolNames == UNION {Words(n) : n \in 1..MaxNameLen}

\* a tool of an arbitrary server, announced under local name n
NamedTool(n) == [name |-> n, description |-> "", inputSchema |-> <<>>]

\* What session.list_tools() may answer for a server: the tools of the
\* repository's servers or, in the scenario of arbitrary servers, one tool or two
\* tools with any two different names, announced by crm.
ToolLists(server_name) ==
    IF scenario = "catalog" /\ server_name = Crm
    THEN {<<NamedTool(n)>> : n \in ToolNames}
         \cup UNION {{<<NamedTool(n), NamedTool(m)>> : m \in ToolNames \ {n}} :
                        n \in ToolNames}
    ELSE {ServerTools(server_name)}

\* call_result.content of a completed call_tool
ToolContent(server_name, local_tool, args) ==
    IF args.type # "dict"
    THEN <<[type |-> "text", text |-> "Error executing tool " \o local_tool]>>
    ELSE IF server_name = Crm
    THEN IF "orderId" \in DOMAIN args.value \/ "order_id" \in DOMAIN args.value
         THEN <<[type |-> "text", text |-> "{\"email\": \"customer@example.com\"}"]>>
         ELSE <<[type |-> "text", text |-> "Error executing tool getCustomerEmail"]>>
    ELSE IF "email" \in DOMAIN args.value
         THEN <<[type |-> "text", text |-> "{\"status\": \"sent\"}"]>>
         ELSE <<[type |-> "text", text |-> "Error executing tool sendShippingConfirmation"]>>

\* Tool-call entries the gateway may send.
CallLookup ==
    [id |-> "call_1", type |-> "function",
     function |-> [name |-> "crm_getCustomerEmail", arguments |-> ArgsOrder]]
CallSend ==
    [id |-> "call_2", type |-> "function",
     function |-> [name |-> "email_sendShippingConfirmation", arguments |-> ArgsEmail]]
\* no id, no arguments, a name that is not in the catalog
CallUnknownNoId == [type |-> "function", function |-> [name |-> "crm.getCustomerEmail"]]
\* no id, arguments that are not JSON
CallMalformedNoId ==
    [type |-> "function",
     function |-> [name |-> "crm_getCustomerEmail", arguments |-> ArgsMalformed]]

ChoicesReply(content, calls) ==
    [choices |-> <<[message |-> [role |-> "assistant", content |-> content,
                                 tool_calls |-> calls]]>>]

\* The scripted replies that request tool calls.  Ids the gateway does send are
\* pairwise distinct within one reply.
ScriptedToolReplies ==
    { r \in { ChoicesReply(None, <<CallLookup>>),
              ChoicesReply("Sending.", <<CallSend>>),
              ChoicesReply(None, <<CallUnknownNoId>>),
              ChoicesReply(None, <<CallMalformedNoId>>),
              ChoicesReply("Both.", <<CallLookup, CallSend>>),
              ChoicesReply(None, <<CallUnknownNoId, CallMalformedNoId>>),
              ChoicesReply(None, <<CallLookup, CallUnknownNoId, CallSend>>) } :
        Len(r.choices[1].message.tool_calls) <= MaxCalls }
    \cup { [content |-> "", tool_calls |-> <<[id |-> "call_3",
                                              name |-> "email_sendShippingConfirmation",
                                              arguments |-> ""]>>] }

\* The scripted replies that request no tool call.
ScriptedFinalReplies ==
    { [choices |-> <<[message |-> [role |-> "assistant",
                                   content |-> "Order processed."]]>>],
      [message |-> "hello"] }

\* Tool-call entries of the custom shape.
FlatCallSend ==
    [id |-> "call_3", name |-> "email_sendShippingConfirmation", arguments |-> ArgsEmail]
FlatCallUnknown ==
    [id |-> "call_4", name |-> "email.sendShippingConfirmation", arguments |-> ArgsEmail]

\* Replies of the scenario of response shapes that request tool calls: one that
\* carries both shapes, each with its own text and calls; one whose choices list
\* is empty beside the flat fields; one of the flat shape alone.
ShapeToolReplies ==
    { [choices |-> <<[message |-> [role |-> "assistant", content |-> "from choices",
                                   tool_calls |-> <<CallLookup>>]]>>,
       content |-> "from flat", tool_calls |-> <<FlatCallSend>>],
      [choices |-> <<>>, content |-> "from flat", tool_calls |-> <<FlatCallUnknown>>],
      [content |-> None, tool_calls |-> <<FlatCallSend>>] }

\* a response of neither shape whose serialization is longer than the preview:
\* {"data": [0, 0, ..., 0]}
LongListLen == 7 * 100
LongReply == [data |-> [i \in 1..LongListLen |-> 0]]

\* Replies of the scenario of response shapes that request no tool call: one that
\* carries both shapes, the choices without tool calls and the flat fields with
\* one; the flat shape without calls; and four of neither shape, one of them long.
ShapeFinalReplies ==
    { [choices |-> <<[message |-> [role |-> "assistant", content |-> "from choices"]]>>,
       content |-> "from flat", tool_calls |-> <<FlatCallSend>>],
      [content |-> "from flat", tool_calls |-> <<>>],
      [content |-> "only content"],
      [choices |-> <<>>],
      [message |-> "hello"],
      LongReply }

\* Tool-call entries with fields left out or empty.
CallEmptyId ==
    [id |-> "", type |-> "function", function |-> [name |-> "crm_getCustomerEmail"]]
CallNoIdEmptyArgs ==
    [type |-> "function",
     function |-> [name |-> "email_sendShippingConfirmation", arguments |-> ""]]
FlatCallBare == [name |-> "crm_getCustomerEmail"]
FlatCallUnknownEmpty == [id |-> "", name |-> "nope", arguments |-> ""]
\* a tool-call entry whose arguments are the JSON text a
CallWithArguments(id, a) ==
    [id |-> id, type |-> "function",
     function |-> [name |-> "crm_getCustomerEmail", arguments |-> a]]

\* Replies of the scenario of tool-call entries that request tool calls: entries
\* of either shape whose id or arguments are missing or empty, under a null
\* content; and entries whose arguments are JSON but not an object.
EntryToolReplies ==
    { ChoicesReply(None, <<CallEmptyId, CallNoIdEmptyArgs>>),
      [content |-> None, tool_calls |-> <<FlatCallBare, FlatCallUnknownEmpty>>],
      ChoicesReply("Odd.", <<CallWithArguments("call_5", ArgsList),
                             CallWithArguments("call_6", ArgsNumber),
                             CallWithArguments("call_7", ArgsNull),
                             CallWithArguments("call_8", ArgsString)>>) }

\* Replies of the scenario of tool-call entries that request no tool call: the
\* scripted ones and the choices shape with a null content.
EntryFinalReplies ==
    ScriptedFinalReplies
    \cup { [choices |-> <<[message |-> [role |-> "assistant", content |-> None]]>>] }

\* the replies with tool calls the gateway of the scenario chooses from; the
\* gateway of the arbitrary tool servers never requests a tool call
ToolReplies ==
    IF scenario = "lab" THEN ScriptedToolReplies
    ELSE IF scenario = "shapes" THEN ShapeToolReplies
    ELSE IF scenario = "entries" THEN EntryToolReplies
    ELSE {}

\* the replies without tool calls the gateway of the scenario chooses from
FinalReplies ==
    IF scenario = "shapes" THEN ShapeFinalReplies
    ELSE IF scenario = "entries" THEN EntryFinalReplies
    ELSE ScriptedFinalReplies

\* What one POST to the gateway may come back with.
GatewayResponses ==
    { [status |-> 200, json |-> TRUE, body |-> r] :
        r \in (IF scriptUsed < ScriptLen THEN ToolReplies ELSE {gateway_json})
                \cup FinalReplies }
    \cup { [status |-> 200, json |-> FALSE, body |-> [text |-> "<html>"]],
           [status |-> 400, json |-> TRUE, body |-> [detail |-> "Model not found"]],
           [status |-> 500, json |-> FALSE, body |-> [text |-> "Internal Server Error"]] }

(***************************************************************************)
(* The run: run_order_workflow / _run_agent.                               *)
(***************************************************************************)
\* The state at the entry of the run, in environment sc.
Entry(sc) ==
    /\ scenario = sc
    /\ impl \in {"run_workflow", "host_agent"}
    /\ pc = "start"
    /\ cur = 1
    /\ stdio_cm = <<>>
    /\ sessions = <<>>
    /\ cmEntered = {}
    /\ sessEntered = {}
    /\ cmExits = [s \in {Crm, Email} |-> 0]
    /\ sessExits = [s \in {Crm, Email} |-> 0]
    /\ stopRaised = {}
    /\ tool_index = <<>>
    /\ tools = <<>>
    /\ messages = <<>>
    /\ turn = 0
    /\ tool_calls = <<>>
    /\ idx = 0
    /\ outcome = [kind |-> "none"]
    /\ requests = <<>>
    /\ invocations = <<>>
    /\ events = <<>>
    /\ gateway_json = <<>>
    /\ scriptUsed = 0
    /\ RUNS = <<>>
    /\ sink_raised = FALSE
    /\ listings = <<>>

\* The run against the repository's tool servers and the scripted gateway.
Init == Entry("lab")

\* _emit(event_sink, event); host_agent.py has no event sink
emit(log, event) == IF impl = "run_workflow" THEN Append(log, event) ELSE log

\* what the call sink(event) may do
SinkResults == IF impl = "run_workflow" THEN {"return", "raise"} ELSE {"return"}

\* Mutation of emit_raises: _emit calls sink(event) without try/except
emit_raises_unguarded(sunk) == sunk = "raise"
\* _emit: try: sink(event) except Exception: pass; whether the call of _emit raises
emit_raises(sunk) == FALSE

\* the event is handed to the sink, which does sunk
Deliver(event, sunk) ==
    /\ events' = emit(events, event)
    /\ sink_raised' = (sink_raised \/ sunk = "raise")

\* Mutation of Leave: the try block has no finally clause
LeaveWithoutFinally(result) ==
    /\ outcome' = result
    /\ pc' = "done"
    /\ cur' = 1

\* Leaving the try block: the finally clause runs stop_all() next.
Leave(result) ==
    /\ outcome' = result
    /\ pc' = IF sessions = <<>> THEN "stop_cm" ELSE "stop_sessions"
    /\ cur' = 1

Returned(text) == [kind |-> "returned", value |-> text]
Raised(what) == [kind |-> "raised", error |-> what]

\* start_server: cm = stdio_client(params); stdio_cm[name] = cm; await cm.__aenter__()
StartChannel ==
    /\ pc = "start"
    /\ stdio_cm' = Append(stdio_cm, servers[cur])
    /\ \/ /\ cmEntered' = cmEntered \cup {servers[cur]}
          /\ pc' = "session_enter"
          /\ UNCHANGED <<cur, outcome>>
       \/ /\ Leave(Raised("cm.__aenter__"))
          /\ UNCHANGED cmEntered
    /\ UNCHANGED <<RUNS, scenario, sink_raised, listings, impl, sessions, sessEntered, cmExits, sessExits, stopRaised,
                   tool_index, tools, messages, turn, tool_calls, idx, requests,
                   invocations, events, gateway_json, scriptUsed>>

\* Mutation of StartSession: a session that cannot be entered is skipped and the
\* next server is started
StartSessionSkipsFailure ==
    /\ pc = "session_enter"
    /\ \/ /\ sessEntered' = sessEntered \cup {servers[cur]}
          /\ pc' = "initialize"
          /\ UNCHANGED cur
       \/ /\ pc' = IF cur < Len(servers) THEN "start"
                   ELSE IF sessions = <<>> THEN "seed" ELSE "list"
          /\ cur' = IF cur = Len(servers) THEN 1 ELSE cur + 1
          /\ UNCHANGED sessEntered
    /\ UNCHANGED <<RUNS, scenario, sink_raised, listings, impl, stdio_cm, sessions,
                   cmEntered, cmExits, sessExits, stopRaised, tool_index, tools,
                   messages, turn, tool_calls, idx, outcome, requests, invocations,
                   events, gateway_json, scriptUsed>>

\* start_server: session = ClientSession(...); await session.__aenter__()
StartSession ==
    /\ pc = "session_enter"
    /\ \/ /\ sessEntered' = sessEntered \cup {servers[cur]}
          /\ pc' = "initialize"
          /\ UNCHANGED <<cur, outcome>>
       \/ /\ Leave(Raised("session.__aenter__"))
          /\ UNCHANGED sessEntered
    /\ UNCHANGED <<RUNS, scenario, sink_raised, listings, impl, stdio_cm, sessions, cmEntered, cmExits, sessExits,
                   stopRaised, tool_index, tools, messages, turn, tool_calls, idx,
                   requests, invocations, events, gateway_json, scriptUsed>>

\* An exception that left _emit would leave the try block at the call of _emit.
SinkAbort ==
    /\ Leave(Raised("event_sink"))
    /\ UNCHANGED <<RUNS, scenario, listings, impl, stdio_cm, sessions, cmEntered,
                   sessEntered, cmExits, sessExits, stopRaised, tool_index, tools,
                   messages, turn, tool_calls, idx, requests, invocations,
                   gateway_json, scriptUsed>>

\* start_server: await session.initialize(); sessions[name] = session
StartInitializeCore ==
    /\ pc = "initialize"
    /\ \/ /\ sessions' = Append(sessions, servers[cur])
          /\ pc' = IF cur = Len(servers) THEN "list" ELSE "start"
          /\ cur' = IF cur = Len(servers) THEN 1 ELSE cur + 1
          /\ UNCHANGED outcome
       \/ /\ Leave(Raised("session.initialize"))
          /\ UNCHANGED sessions
    /\ UNCHANGED <<RUNS, scenario, listings, impl, stdio_cm, cmEntered, sessEntered,
                   cmExits, sessExits, stopRaised, tool_index, tools, messages, turn,
                   tool_calls, idx, requests, invocations, gateway_json, scriptUsed>>

\* start_server: await session.initialize(); sessions[name] = session; _emit(...)
StartInitialize ==
    /\ pc = "initialize"
    /\ \/ \E sunk \in SinkResults :
             /\ Deliver([type |-> "mcp_server_started", name |-> servers[cur]], sunk)
             /\ IF emit_raises(sunk)
                THEN /\ sessions' = Append(sessions, servers[cur])
                     /\ outcome' = Raised("event_sink")
                     /\ pc' = "stop_sessions"
                     /\ cur' = 1
                     /\ UNCHANGED <<RUNS, scenario, listings, impl, stdio_cm, cmEntered,
                                    sessEntered, cmExits, sessExits, stopRaised,
                                    tool_index, tools, messages, turn, tool_calls,
                                    idx, requests, invocations, gateway_json,
                                    scriptUsed>>
                ELSE /\ StartInitializeCore
                     /\ outcome' = outcome
       \/ /\ StartInitializeCore
          /\ outcome' # outcome
          /\ UNCHANGED <<events, sink_raised>>

\* s.strip(), for blanks and line ends
RECURSIVE LStrip(_)
LStrip(s) ==
    IF s # "" /\ SubSeq(s, 1, 1) \in {" ", "\n"} THEN LStrip(SubSeq(s, 2, Len(s))) ELSE s
RECURSIVE RStrip(_)
RStrip(s) ==
    IF s # "" /\ SubSeq(s, Len(s), Len(s)) \in {" ", "\n"}
    THEN RStrip(SubSeq(s, 1, Len(s) - 1)) ELSE s
Strip(s) == RStrip(LStrip(s))

\* safe_name = f"{server_name}_{t.name}".replace(".", "_")
safe_name(server_name, tname) == Replace(server_name \o "_" \o tname, ".", "_")

\* the descriptor appended to tools
ToolDescriptor(server_name, t) ==
    [type |-> "function",
     function |-> [name |-> safe_name(server_name, t.name),
                   description |-> Strip(OrStr(t.description, "")),
                   parameters |-> IF t.inputSchema = <<>>
                                  THEN [type |-> "object", properties |-> <<>>]
                                  ELSE t.inputSchema]]

\* for t in tool_list.tools: tool_index[safe_name] = (server_name, t.name); tools.append(...)
RECURSIVE AddTools(_, _, _, _)
AddTools(index, descs, server_name, tool_list) ==
    IF tool_list = <<>> THEN [index |-> index, tools |-> descs]
    ELSE LET t == Head(tool_list)
         IN  AddTools(DictSet(index, safe_name(server_name, t.name), <<server_name, t.name>>),
                      Append(descs, ToolDescriptor(server_name, t)),
                      server_name, Tail(tool_list))

\* for server_name, session in sessions.items(): tool_list = await session.list_tools(); ...
ListTools ==
    /\ pc = "list"
    /\ listings' = Append(listings, sessions[cur])
    /\ \/ /\ \E tool_list \in ToolLists(sessions[cur]) :
                LET built == AddTools(tool_index, tools, sessions[cur], tool_list)
                IN  /\ tool_index' = built.index
                    /\ tools' = built.tools
          /\ pc' = IF cur = Len(sessions) THEN "seed" ELSE "list"
          /\ cur' = IF cur = Len(sessions) THEN 1 ELSE cur + 1
          /\ UNCHANGED outcome
       \/ /\ Leave(Raised("session.list_tools"))
          /\ UNCHANGED <<tool_index, tools>>
    /\ UNCHANGED <<RUNS, scenario, sink_raised, impl, stdio_cm, sessions, cmEntered, sessEntered, cmExits,
                   sessExits, stopRaised, messages, turn, tool_calls, idx, requests,
                   invocations, events, gateway_json, scriptUsed>>

SystemPrompt ==
    "You are an Autonomous Operations Agent. "
    \o "Your job is to process incoming customer orders by using available tools. "
    \o "Workflow: look up customer email for the order, then send a shipping confirmation email. "
    \o "After completing, respond with a short summary of actions taken."
UserPrompt == "Process new order #XYZ-789."

\* messages = [{"role": "system", ...}, {"role": "user", ...}]
SeedConversation ==
    /\ pc = "seed"
    /\ messages' = <<[role |-> "system", content |-> SystemPrompt],
                     [role |-> "user", content |-> UserPrompt]>>
    /\ pc' = "gateway"
    /\ UNCHANGED <<RUNS, scenario, sink_raised, listings, impl, cur, stdio_cm, sessions, cmEntered, sessEntered, cmExits,
                   sessExits, stopRaised, tool_index, tools, turn, tool_calls, idx,
                   outcome, requests, invocations, events, gateway_json, scriptUsed>>

ChatUrl == "/chat/completions"
\* candidate_urls of host_agent._velocity_chat_completed
ProbeUrls == <<"/v1/models", "/api/models", "/models">>

\* Mutation of GatewayRequestCore: the payload carries the seed messages and the
\* last two messages only
GatewayRequestCoreWindowed ==
    /\ pc = "gateway"
    /\ turn < MaxTurns
    /\ turn' = turn + 1
    /\ requests' = Append(requests, [method |-> "POST", url |-> ChatUrl,
                                     messages |-> IF Len(messages) <= 4
                                                  THEN Len(messages) ELSE 4,
                                     tools |-> Len(tools)])
    /\ pc' = "await_gateway"
    /\ UNCHANGED <<RUNS, scenario, listings, impl, cur, stdio_cm, sessions, cmEntered,
                   sessEntered, cmExits, sessExits, stopRaised, tool_index, tools,
                   messages, tool_calls, idx, outcome, invocations, gateway_json,
                   scriptUsed>>

\* An iteration of `for _ in range(10)` begins: client.post(api_url, json=payload)
GatewayRequestCore ==
    /\ pc = "gateway"
    /\ turn < MaxTurns
    /\ turn' = turn + 1
    /\ requests' = Append(requests, [method |-> "POST", url |-> ChatUrl,
                                     messages |-> Len(messages),
                                     tools |-> Len(tools)])
    /\ pc' = "await_gateway"
    /\ UNCHANGED <<RUNS, scenario, listings, impl, cur, stdio_cm, sessions, cmEntered,
                   sessEntered, cmExits, sessExits, stopRaised, tool_index, tools,
                   messages, tool_calls, idx, outcome, invocations, gateway_json,
                   scriptUsed>>

\* An iteration of `for _ in range(10)` begins: _emit(gateway_request); client.post(...)
GatewayRequest ==
    /\ pc = "gateway"
    /\ turn < MaxTurns
    /\ \E sunk \in SinkResults :
          /\ Deliver([type |-> "gateway_request", url |-> ChatUrl], sunk)
          /\ IF emit_raises(sunk)
             THEN /\ turn' = turn + 1
                  /\ Leave(Raised("event_sink"))
                  /\ UNCHANGED <<RUNS, scenario, listings, impl, stdio_cm, sessions,
                                 cmEntered, sessEntered, cmExits, sessExits,
                                 stopRaised, tool_index, tools, messages, tool_calls,
                                 idx, requests, invocations, gateway_json, scriptUsed>>
             ELSE GatewayRequestCore

\* Mutation of GatewayTransportError: a post that raised is tried again in the
\* next iteration
GatewayTransportErrorRetries ==
    /\ pc = "await_gateway"
    /\ pc' = "gateway"
    /\ UNCHANGED <<RUNS, scenario, sink_raised, listings, impl, cur, stdio_cm, sessions,
                   cmEntered, sessEntered, cmExits, sessExits, stopRaised,
                   tool_index, tools, messages, turn, tool_calls, idx, outcome,
                   requests, invocations, events, gateway_json, scriptUsed>>

\* client.post(...) itself raises (timeout, connection error)
GatewayTransportError ==
    /\ pc = "await_gateway"
    /\ Leave(Raised("httpx.TransportError"))
    /\ UNCHANGED <<RUNS, scenario, sink_raised, listings, impl, stdio_cm, sessions, cmEntered, sessEntered, cmExits,
                   sessExits, stopRaised, tool_index, tools, messages, turn,
                   tool_calls, idx, requests, invocations, events, gateway_json, scriptUsed>>

\* the first n probes of the model-list endpoints
Probes(n) ==
    [i \in 1..n |-> [method |-> "GET", url |-> ProbeUrls[i], messages |-> 0, tools |-> 0]]

\* What implementation i sends after a status >= 400, before it raises:
\* host_agent.py probes the model-list endpoints, until one answers;
\* run_workflow.py sends nothing.
GatewayProbes(i) ==
    IF i = "host_agent"
    THEN \E n \in 1..Len(ProbeUrls) : requests' = requests \o Probes(n)
    ELSE UNCHANGED requests

\* if resp.status_code >= 400: raise RuntimeError(...)
HttpErrorRaise(resp) ==
    /\ pc = "await_gateway"
    /\ resp.status >= ErrorStatus
    /\ Leave(Raised("Velocity gateway error status=" \o ToString(resp.status)))
    /\ UNCHANGED <<RUNS, scenario, listings, impl, stdio_cm, sessions, cmEntered,
                   sessEntered, cmExits, sessExits, stopRaised, tool_index, tools,
                   messages, turn, tool_calls, idx, invocations, gateway_json,
                   scriptUsed>>

\* Mutation of GatewayHttpErrorCore: host_agent.py returns the text of the error
\* as the result of the run instead of raising it
GatewayHttpErrorCoreReturned(resp) ==
    /\ pc = "await_gateway"
    /\ resp.status >= ErrorStatus
    /\ GatewayProbes(impl)
    /\ IF impl = "host_agent"
       THEN Leave(Returned("Velocity gateway error status=" \o ToString(resp.status)))
       ELSE Leave(Raised("Velocity gateway error status=" \o ToString(resp.status)))
    /\ UNCHANGED <<RUNS, scenario, listings, impl, stdio_cm, sessions, cmEntered,
                   sessEntered, cmExits, sessExits, stopRaised, tool_index, tools,
                   messages, turn, tool_calls, idx, invocations, gateway_json,
                   scriptUsed>>

\* if resp.status_code >= 400: [the probes of host_agent.py;] raise RuntimeError(...)
GatewayHttpErrorCore(resp) ==
    /\ HttpErrorRaise(resp)
    /\ GatewayProbes(impl)

\* if resp.status_code >= 400: _emit(gateway_error); raise RuntimeError(...)
GatewayHttpError ==
    /\ pc = "await_gateway"
    /\ \E resp \in GatewayResponses :
          /\ resp.status >= ErrorStatus
          /\ \E sunk \in SinkResults :
                /\ Deliver([type |-> "gateway_error", status |-> resp.status], sunk)
                /\ IF emit_raises(sunk) THEN SinkAbort ELSE GatewayHttpErrorCore(resp)

\* Mutation of GatewayNonJson: a body that does not parse is retried
GatewayNonJsonRetries ==
    /\ pc = "await_gateway"
    /\ \E resp \in GatewayResponses :
          /\ resp.status < ErrorStatus
          /\ ~resp.json
          /\ pc' = "gateway"
    /\ UNCHANGED <<RUNS, scenario, sink_raised, listings, impl, cur, stdio_cm, sessions, cmEntered, sessEntered, cmExits,
                   sessExits, stopRaised, tool_index, tools, messages, turn,
                   tool_calls, idx, outcome, requests, invocations, events,
                   gateway_json, scriptUsed>>

\* return resp.json() fails: raise RuntimeError("Gateway returned non-JSON")
GatewayNonJson ==
    /\ pc = "await_gateway"
    /\ \E resp \in GatewayResponses :
          /\ resp.status < ErrorStatus
          /\ ~resp.json
          /\ Leave(Raised("Gateway returned non-JSON"))
    /\ UNCHANGED <<RUNS, scenario, sink_raised, listings, impl, stdio_cm, sessions, cmEntered, sessEntered, cmExits,
                   sessExits, stopRaised, tool_index, tools, messages, turn,
                   tool_calls, idx, requests, invocations, events, gateway_json, scriptUsed>>

\* the assistant message appended when tool calls were requested
AssistantMessage(assistant_text, calls) ==
    [role |-> "assistant",
     content |-> assistant_text,
     tool_calls |-> [i \in 1..Len(calls) |->
                        [id |-> calls[i].id, type |-> "function",
                         function |-> [name |-> calls[i].name,
                                       arguments |-> calls[i].arguments]]]]

\* Mutation of NoToolCalls: a single requested call is taken for none
NoToolCallsOrOne(calls) == Len(calls) <= 1
\* if not tool_calls
NoToolCalls(calls) == calls = <<>>

\* The exchange succeeded: normalize, then return the text or append the
\* assistant message and start on the tool calls.
GatewayJsonCore(resp) ==
    /\ pc = "await_gateway"
    /\ resp.status < ErrorStatus
    /\ resp.json
    /\ LET r == extract_assistant_and_tool_calls(resp.body)
       IN  /\ gateway_json' = resp.body
           /\ IF NoToolCalls(r.calls)
              THEN /\ Leave(Returned(r.text))
                   /\ UNCHANGED <<messages, tool_calls, idx, scriptUsed>>
              ELSE /\ messages' = Append(messages, AssistantMessage(r.text, r.calls))
                   /\ tool_calls' = r.calls
                   /\ idx' = 1
                   /\ pc' = "dispatch"
                   /\ scriptUsed' = IF scriptUsed < ScriptLen THEN scriptUsed + 1
                                    ELSE scriptUsed
                   /\ UNCHANGED <<cur, outcome>>
    /\ UNCHANGED <<RUNS, scenario, listings, impl, stdio_cm, sessions, cmEntered,
                   sessEntered, cmExits, sessExits, stopRaised, tool_index, tools,
                   turn, requests, invocations>>

\* Mutation of GatewayJson: the assistant event is emitted only when tool calls
\* were requested
GatewayJsonQuietFinal ==
    /\ pc = "await_gateway"
    /\ \E resp \in GatewayResponses :
          /\ resp.status < ErrorStatus
          /\ resp.json
          /\ LET r == extract_assistant_and_tool_calls(resp.body)
             IN  IF NoToolCalls(r.calls)
                 THEN UNCHANGED <<events, sink_raised>>
                 ELSE \E sunk \in SinkResults :
                         Deliver([type |-> "assistant", content |-> r.text,
                                  tool_calls |-> r.calls], sunk)
          /\ GatewayJsonCore(resp)

\* The exchange succeeded: normalize, _emit(assistant), then return the text or
\* append the assistant message and start on the tool calls.
GatewayJson ==
    /\ pc = "await_gateway"
    /\ \E resp \in GatewayResponses :
          /\ resp.status < ErrorStatus
          /\ resp.json
          /\ \E sunk \in SinkResults :
                /\ LET r == extract_assistant_and_tool_calls(resp.body)
                   IN  Deliver([type |-> "assistant", content |-> r.text,
                                tool_calls |-> r.calls], sunk)
                /\ IF emit_raises(sunk)
                   THEN /\ gateway_json' = resp.body
                        /\ Leave(Raised("event_sink"))
                        /\ UNCHANGED <<RUNS, scenario, listings, impl, stdio_cm, sessions,
                                       cmEntered, sessEntered, cmExits, sessExits,
                                       stopRaised, tool_index, tools, messages, turn,
                                       tool_calls, idx, requests, invocations,
                                       scriptUsed>>
                   ELSE GatewayJsonCore(resp)

\* Mutation of parse_args: the fallback for malformed arguments is an empty dict
parse_args_drops_raw(args_json) ==
    IF args_json = "" THEN [type |-> "dict", value |-> <<>>]
    ELSE IF json_loads(args_json).ok THEN json_loads(args_json).value
    ELSE [type |-> "dict", value |-> <<>>]

\* args = json.loads(args_json) if args_json else {}; on JSONDecodeError {"_raw": args_json}
parse_args(args_json) ==
    IF args_json = "" THEN [type |-> "dict", value |-> <<>>]
    ELSE IF json_loads(args_json).ok THEN json_loads(args_json).value
    ELSE [type |-> "dict", value |-> [_raw |-> args_json]]

\* if tool_name not in tool_index
UnknownTool(tool_name, index) == tool_name \notin DOMAIN index

\* result = {"error": f"Unknown tool: {tool_name}"}
UnknownToolResult(tool_name) == [error |-> "Unknown tool: " \o tool_name]

\* result = {"content": [{"type": c.type, "text": getattr(c, "text", None)} for c in ...]}
ContentResult(content) ==
    [content |-> [i \in 1..Len(content) |->
                     [type |-> content[i].type, text |-> content[i].text]]]

\* the tool message appended for tool call tc
ToolMessage(tc, result) ==
    [role |-> "tool", tool_call_id |-> tc.id, content |-> json_dumps(result)]

\* Mutation of AfterCall: the loop over tool_calls stops after its first call
AfterCallBreaks == "gateway"
\* Mutation of AfterCall: the catalog is built again after the calls of a turn
AfterCallRelists == IF idx = Len(tool_calls) THEN "list" ELSE "dispatch"
\* where the loop over tool_calls goes after the call at idx
AfterCall == IF idx = Len(tool_calls) THEN "gateway" ELSE "dispatch"

\* Mutation of DispatchUnknown: tool_index[tool_name] is read without the
\* membership test, and the KeyError leaves the loop
DispatchUnknownRaises ==
    /\ pc = "dispatch"
    /\ UnknownTool(tool_calls[idx].name, tool_index)
    /\ outcome' = [kind |-> "raised", error |-> "KeyError"]
    /\ pc' = "stop_sessions"
    /\ cur' = 1
    /\ UNCHANGED <<RUNS, scenario, sink_raised, listings, impl, stdio_cm, sessions, cmEntered, sessEntered, cmExits,
                   sessExits, stopRaised, tool_index, tools, messages, turn,
                   tool_calls, idx, requests, invocations, events, gateway_json,
                   scriptUsed>>

\* for tc in tool_calls: the name is not in tool_index
DispatchUnknown ==
    /\ pc = "dispatch"
    /\ UnknownTool(tool_calls[idx].name, tool_index)
    /\ messages' = Append(messages,
                          ToolMessage(tool_calls[idx],
                                      UnknownToolResult(tool_calls[idx].name)))
    /\ idx' = idx + 1
    /\ pc' = AfterCall
    /\ UNCHANGED <<RUNS, scenario, sink_raised, listings, impl, cur, stdio_cm, sessions, cmEntered, sessEntered, cmExits,
                   sessExits, stopRaised, tool_index, tools, turn, tool_calls,
                   outcome, requests, invocations, events, gateway_json, scriptUsed>>

\* Mutation of InvokeToolCore: call_tool is started without being awaited, and the
\* loop goes on to the next call
InvokeToolCoreConcurrent ==
    /\ pc = "dispatch"
    /\ ~UnknownTool(tool_calls[idx].name, tool_index)
    /\ LET target == tool_index[tool_calls[idx].name]
           args == parse_args(tool_calls[idx].arguments)
       IN  invocations' = Append(invocations, [server |-> target[1],
                                               tool |-> target[2], args |-> args])
    /\ idx' = idx + 1
    /\ pc' = AfterCall
    /\ UNCHANGED <<RUNS, scenario, listings, impl, cur, stdio_cm, sessions, cmEntered,
                   sessEntered, cmExits, sessExits, stopRaised, tool_index, tools,
                   messages, turn, tool_calls, outcome, requests, gateway_json,
                   scriptUsed>>

\* for tc in tool_calls: await session.call_tool(local_tool, args)
InvokeToolCore ==
    /\ pc = "dispatch"
    /\ ~UnknownTool(tool_calls[idx].name, tool_index)
    /\ LET target == tool_index[tool_calls[idx].name]
           args == parse_args(tool_calls[idx].arguments)
       IN  invocations' = Append(invocations, [server |-> target[1],
                                               tool |-> target[2], args |-> args])
    /\ pc' = "await_tool"
    /\ UNCHANGED <<RUNS, scenario, listings, impl, cur, stdio_cm, sessions, cmEntered,
                   sessEntered, cmExits, sessExits, stopRaised, tool_index, tools,
                   messages, turn, tool_calls, idx, outcome, requests, gateway_json,
                   scriptUsed>>

\* for tc in tool_calls: _emit(tool_call); await session.call_tool(local_tool, args)
InvokeTool ==
    /\ pc = "dispatch"
    /\ ~UnknownTool(tool_calls[idx].name, tool_index)
    /\ \E sunk \in SinkResults :
          /\ Deliver([type |-> "tool_call", name |-> tool_calls[idx].name,
                      args |-> parse_args(tool_calls[idx].arguments)], sunk)
          /\ IF emit_raises(sunk) THEN SinkAbort ELSE InvokeToolCore

\* call_tool returned: build the result and append the tool message
ToolReturn ==
    /\ pc = "await_tool"
    /\ LET inv == invocations[Len(invocations)]
       IN  messages' = Append(messages,
                              ToolMessage(tool_calls[idx],
                                          ContentResult(ToolContent(inv.server, inv.tool,
                                                                    inv.args))))
    /\ idx' = idx + 1
    /\ pc' = AfterCall
    /\ UNCHANGED <<RUNS, scenario, sink_raised, listings, impl, cur, stdio_cm, sessions, cmEntered, sessEntered, cmExits,
                   sessExits, stopRaised, tool_index, tools, turn, tool_calls,
                   outcome, requests, invocations, events, gateway_json, scriptUsed>>

\* Mutation of ToolRaise: the error of call_tool is caught and answered with an
\* error payload, and the loop goes on
ToolRaiseAnswered ==
    /\ pc = "await_tool"
    /\ messages' = Append(messages,
                          ToolMessage(tool_calls[idx], [error |-> "session.call_tool"]))
    /\ idx' = idx + 1
    /\ pc' = AfterCall
    /\ UNCHANGED <<RUNS, scenario, sink_raised, listings, impl, cur, stdio_cm, sessions,
                   cmEntered, sessEntered, cmExits, sessExits, stopRaised,
                   tool_index, tools, turn, tool_calls, outcome, requests,
                   invocations, events, gateway_json, scriptUsed>>

\* call_tool raised: the error leaves the loop
ToolRaise ==
    /\ pc = "await_tool"
    /\ Leave(Raised("session.call_tool"))
    /\ UNCHANGED <<RUNS, scenario, sink_raised, listings, impl, stdio_cm, sessions, cmEntered, sessEntered, cmExits,
                   sessExits, stopRaised, tool_index, tools, messages, turn,
                   tool_calls, idx, requests, invocations, events, gateway_json, scriptUsed>>

FailedText == "Failed: model kept requesting tools without finishing."

\* Mutation of LoopExhausted: the loop is left one iteration too late
LoopExhaustedOffByOne ==
    /\ pc = "gateway"
    /\ turn > MaxTurns
    /\ Leave(Returned(FailedText))
    /\ UNCHANGED <<RUNS, scenario, sink_raised, listings, impl, stdio_cm, sessions, cmEntered,
                   sessEntered, cmExits, sessExits, stopRaised, tool_index, tools,
                   messages, turn, tool_calls, idx, requests, invocations, events,
                   gateway_json, scriptUsed>>

\* range(10) is exhausted: return "Failed: ..."
LoopExhausted ==
    /\ pc = "gateway"
    /\ turn >= MaxTurns
    /\ Leave(Returned(FailedText))
    /\ UNCHANGED <<RUNS, scenario, sink_raised, listings, impl, stdio_cm, sessions, cmEntered, sessEntered, cmExits,
                   sessExits, stopRaised, tool_index, tools, messages, turn,
                   tool_calls, idx, requests, invocations, events, gateway_json, scriptUsed>>

(***************************************************************************)
(* finally: await stop_all()                                               *)
(***************************************************************************)
\* Mutation of StopSession: no try/except around session.__aexit__, so the error
\* leaves stop_all and becomes the error of the run
StopSessionUnguarded ==
    /\ pc = "stop_sessions"
    /\ sessExits' = [sessExits EXCEPT ![sessions[cur]] = @ + 1]
    /\ \/ /\ UNCHANGED <<stopRaised, outcome>>
          /\ pc' = IF cur = Len(sessions) THEN "stop_cm" ELSE "stop_sessions"
          /\ cur' = IF cur = Len(sessions) THEN 1 ELSE cur + 1
       \/ /\ stopRaised' = stopRaised \cup {<<"session", sessions[cur]>>}
          /\ outcome' = [kind |-> "raised", error |-> "session.__aexit__"]
          /\ pc' = "done"
          /\ cur' = 1
    /\ UNCHANGED <<RUNS, scenario, sink_raised, listings, impl, stdio_cm, sessions, cmEntered, sessEntered, cmExits,
                   tool_index, tools, messages, turn, tool_calls, idx,
                   requests, invocations, events, gateway_json, scriptUsed>>

\* for _, session in list(sessions.items()): try: await session.__aexit__(...)
\*                                           except Exception: pass
StopSession ==
    /\ pc = "stop_sessions"
    /\ sessExits' = [sessExits EXCEPT ![sessions[cur]] = @ + 1]
    /\ \/ UNCHANGED stopRaised
       \/ stopRaised' = stopRaised \cup {<<"session", sessions[cur]>>}
    /\ pc' = IF cur = Len(sessions) THEN "stop_cm" ELSE "stop_sessions"
    /\ cur' = IF cur = Len(sessions) THEN 1 ELSE cur + 1
    /\ UNCHANGED <<RUNS, scenario, sink_raised, listings, impl, stdio_cm, sessions, cmEntered, sessEntered, cmExits,
                   tool_index, tools, messages, turn, tool_calls, idx, outcome,
                   requests, invocations, events, gateway_json, scriptUsed>>

\* Mutation of StopChannel: a run that raised after the conversation began goes
\* back to the loop once its channels are closed
StopChannelResumes ==
    /\ pc = "stop_cm"
    /\ cmExits' = [cmExits EXCEPT ![stdio_cm[cur]] = @ + 1]
    /\ \/ UNCHANGED stopRaised
       \/ stopRaised' = stopRaised \cup {<<"cm", stdio_cm[cur]>>}
    /\ pc' = IF cur < Len(stdio_cm) THEN "stop_cm"
             ELSE IF outcome.kind = "raised" /\ messages # <<>> /\ turn < MaxTurns
             THEN "gateway" ELSE "done"
    /\ cur' = IF cur = Len(stdio_cm) THEN 1 ELSE cur + 1
    /\ UNCHANGED <<RUNS, scenario, sink_raised, listings, impl, stdio_cm, sessions, cmEntered,
                   sessEntered, sessExits, tool_index, tools, messages, turn,
                   tool_calls, idx, outcome, requests, invocations, events,
                   gateway_json, scriptUsed>>

\* for _, cm in list(stdio_cm.items()): try: await cm.__aexit__(...)
\*                                      except (asyncio.CancelledError, Exception): pass
StopChannel ==
    /\ pc = "stop_cm"
    /\ cmExits' = [cmExits EXCEPT ![stdio_cm[cur]] = @ + 1]
    /\ \/ UNCHANGED stopRaised
       \/ stopRaised' = stopRaised \cup {<<"cm", stdio_cm[cur]>>}
    /\ pc' = IF cur = Len(stdio_cm) THEN "done" ELSE "stop_cm"
    /\ cur' = IF cur = Len(stdio_cm) THEN 1 ELSE cur + 1
    /\ UNCHANGED <<RUNS, scenario, sink_raised, listings, impl, stdio_cm, sessions, cmEntered, sessEntered, sessExits,
                   tool_index, tools, messages, turn, tool_calls, idx, outcome,
                   requests, invocations, events, gateway_json, scriptUsed>>

Next ==
    \/ StartChannel
    \/ StartSession
    \/ StartInitialize
    \/ ListTools
    \/ SeedConversation
    \/ GatewayRequest
    \/ GatewayTransportError
    \/ GatewayHttpError
    \/ GatewayNonJson
    \/ GatewayJson
    \/ DispatchUnknown
    \/ InvokeTool
    \/ ToolReturn
    \/ ToolRaise
    \/ LoopExhausted
    \/ StopSession
    \/ StopChannel

Spec == Init /\ [][Next]_vars

(***************************************************************************)
(* The web layer: web_app.create_run and web_app._run_background.          *)
(***************************************************************************)
LowerLetters == "abcdefghijklmnopqrstuvwxyz"
UpperLetters == "ABCDEFGHIJKLMNOPQRSTUVWXYZ"

\* c.upper() for one character
UpperChar(c) ==
    IF \E k \in 1..Len(LowerLetters) : SubSeq(LowerLetters, k, k) = c
    THEN LET k == CHOOSE k \in 1..Len(LowerLetters) : SubSeq(LowerLetters, k, k) = c
         IN  SubSeq(UpperLetters, k, k)
    ELSE c

\* the characters of s from position i on, in upper case
RECURSIVE UpperFrom(_, _)
UpperFrom(s, i) ==
    IF i > Len(s) THEN "" ELSE UpperChar(SubSeq(s, i, i)) \o UpperFrom(s, i + 1)

\* s.upper()
Upper(s) == UpperFrom(s, 1)

\* s.lstrip(c) for one character c
RECURSIVE LStripChar(_, _)
LStripChar(s, c) ==
    IF s # "" /\ SubSeq(s, 1, 1) = c THEN LStripChar(SubSeq(s, 2, Len(s)), c) ELSE s

\* order_id.strip().lstrip('#').upper()
NormalizeOrderId(order_id) == Upper(LStripChar(Strip(order_id), "#"))

\* the order_id query parameters of the requests to POST /api/runs
OrderIds == {"XYZ-789", " #abc-1\n", "##xyz-789 "}

\* RunState(run_id): status "running", no logs, no final, no error
RunState == [status |-> "running", logs |-> <<>>, final |-> None, error |-> None]

\* _append_event(run, event); the time stamp of the event is left out
append_event(run, event) == [run EXCEPT !.logs = Append(@, event)]

\* the keyword parameters of run_order_workflow(*, settings, event_sink=None)
WorkflowParameters == {"settings", "event_sink"}
\* the keyword arguments of _run_background's call of run_order_workflow
BackgroundKeywords == {"settings", "order_id", "event_sink"}

\* what load_settings() does in the environment of the server
SettingsResults == {"ok", "RuntimeError('Missing VELOCITY_API_KEY in environment/.env')"}

\* repr(e) of the TypeError of a call with a keyword the function does not have
UnexpectedKeyword(k) ==
    "TypeError(\"run_order_workflow() got an unexpected keyword argument '"
        \o k \o "'\")"

\* Mutation of run_failed: the failure is recorded without its error event
run_failed_silent(run, error) == [run EXCEPT !.status = "failed", !.error = error]

\* except Exception as e: run.status = "failed"; run.error = repr(e); _append_event(...)
run_failed(run, error) ==
    append_event([run EXCEPT !.status = "failed", !.error = error],
                 [type |-> "error", error |-> error])

\* The state of the server before any request.
WebInit ==
    /\ scenario = "web"
    /\ impl = "run_workflow"
    /\ pc = "idle"
    /\ cur = 1
    /\ stdio_cm = <<>>
    /\ sessions = <<>>
    /\ cmEntered = {}
    /\ sessEntered = {}
    /\ cmExits = [s \in {Crm, Email} |-> 0]
    /\ sessExits = [s \in {Crm, Email} |-> 0]
    /\ stopRaised = {}
    /\ tool_index = <<>>
    /\ tools = <<>>
    /\ messages = <<>>
    /\ turn = 0
    /\ tool_calls = <<>>
    /\ idx = 0
    /\ outcome = [kind |-> "none"]
    /\ requests = <<>>
    /\ invocations = <<>>
    /\ events = <<>>
    /\ gateway_json = <<>>
    /\ scriptUsed = 0
    /\ sink_raised = FALSE
    /\ listings = <<>>
    /\ RUNS = <<>>

\* POST /api/runs: run = RunState(run_id); _append_event(run, run_started);
\* _RUNS[run_id] = run; asyncio.create_task(_run_background(run)).  The run ids
\* (uuid4) are fresh; the model numbers the runs.
create_run ==
    /\ Len(RUNS) < MaxRuns
    /\ \E order_id \in OrderIds :
          RUNS' = Append(RUNS,
                         append_event(RunState,
                                      [type |-> "run_started",
                                       order_id |-> NormalizeOrderId(order_id)]))
    /\ UNCHANGED <<scenario, impl, pc, cur, stdio_cm, sessions, cmEntered, sessEntered,
                   cmExits, sessExits, stopRaised, tool_index, tools, messages, turn,
                   tool_calls, idx, outcome, requests, invocations, events,
                   gateway_json, scriptUsed, sink_raised, listings>>

\* The task _run_background(run) of a run runs: load_settings(), then the call of
\* run_order_workflow.  A call with a keyword the function does not have raises
\* TypeError before the function is entered; the handler records the failure.
\* Were the call to bind, the run of the workflow would begin.
run_background ==
    /\ pc = "idle"
    /\ \E run_id \in 1..Len(RUNS) :
          /\ RUNS[run_id].status = "running"
          /\ \E loaded \in SettingsResults :
                IF loaded # "ok"
                THEN /\ RUNS' = [RUNS EXCEPT ![run_id] = run_failed(@, loaded)]
                     /\ UNCHANGED pc
                ELSE IF BackgroundKeywords \subseteq WorkflowParameters
                THEN /\ pc' = "start"
                     /\ UNCHANGED RUNS
                ELSE /\ RUNS' = [RUNS EXCEPT ![run_id] =
                                    run_failed(@, UnexpectedKeyword(
                                        CHOOSE k \in BackgroundKeywords :
                                            k \notin WorkflowParameters))]
                     /\ UNCHANGED pc
    /\ UNCHANGED <<scenario, impl, cur, stdio_cm, sessions, cmEntered, sessEntered,
                   cmExits, sessExits, stopRaised, tool_index, tools, messages, turn,
                   tool_calls, idx, outcome, requests, invocations, events,
                   gateway_json, scriptUsed, sink_raised, listings>>

\* The steps of the web layer.  GET /api/runs/{run_id} reads a record and changes
\* nothing.
WebNext ==
    \/ create_run
    \/ run_background

WebSpec == WebInit /\ [][WebNext]_vars

\* The web layer when the event loop runs every task it was given: the task
\* asyncio.create_task(_run_background(run)) scheduled is eventually run.
WebLiveSpec == WebInit /\ [][WebNext]_vars /\ WF_vars(run_background)

\* The run against arbitrary tool servers.  Their gateway never requests a tool
\* call, so the run ends with its first exchange.
CatalogInit == Entry("catalog")

CatalogNext ==
    \/ StartChannel
    \/ StartSession
    \/ StartInitialize
    \/ ListTools
    \/ SeedConversation
    \/ GatewayRequest
    \/ GatewayTransportError
    \/ GatewayHttpError
    \/ GatewayNonJson
    \/ GatewayJson
    \/ StopSession
    \/ StopChannel

CatalogSpec == CatalogInit /\ [][CatalogNext]_vars

\* The run against a gateway that answers in every response shape.
ShapesInit == Entry("shapes")

ShapesSpec == ShapesInit /\ [][Next]_vars

\* The run against a gateway whose tool-call entries leave fields out or carry
\* arguments that are JSON but not an object.
EntriesInit == Entry("entries")

EntriesSpec == EntriesInit /\ [][Next]_vars

\* The run when every operation it awaits (the start and the stop of a session, a
\* listing, an exchange with the gateway, a tool invocation) eventually completes
\* or fails: a step that can be taken is eventually taken.  The gateway is the one
\* of EntriesSpec, whose replies request up to four calls.
LiveSpec == EntriesInit /\ [][Next]_vars /\ WF_vars(Next)

(***************************************************************************)
(* Properties.                                                             *)
(***************************************************************************)
ServerNames == {servers[i] : i \in 1..Len(servers)}
InTeardown == pc \in {"stop_sessions", "stop_cm"}
\* servers whose start_server completed
Started == {sessions[i] : i \in 1..Len(sessions)}
\* the exchanges with the chat endpoint
ChatPosts == {i \in 1..Len(requests) : requests[i].method = "POST"}
Gateway500 == Raised("Velocity gateway error status=500")

\* C1: on every exit path every started session is stopped exactly once before
\* the run returns or raises: no stop happens inside the try block, no session or
\* channel is ever stopped twice, and when the run ends each started session has
\* had its session and its channel stopped once; a gateway status 500 ends the
\* run with that error and with crm and email stopped once each.
C1_StoppedOnEveryExit ==
    /\ \A s \in ServerNames : sessExits[s] <= 1 /\ cmExits[s] <= 1
    /\ outcome.kind = "none" =>
          /\ pc \notin {"stop_sessions", "stop_cm", "done"}
          /\ \A s \in ServerNames : sessExits[s] = 0 /\ cmExits[s] = 0
    /\ pc = "done" =>
          /\ outcome.kind \in {"returned", "raised"}
          /\ \A s \in Started : sessExits[s] = 1 /\ cmExits[s] = 1
    /\ (pc = "done" /\ outcome = Gateway500) =>
          /\ Started = {Crm, Email}
          /\ \A s \in {Crm, Email} : sessExits[s] = 1 /\ cmExits[s] = 1

\* C1 witness: a run that a status 500 aborted has ended with both sessions stopped
C1_Witness ==
    /\ pc = "done"
    /\ outcome = Gateway500
    /\ turn = 2
    /\ \A s \in {Crm, Email} : sessExits[s] = 1 /\ cmExits[s] = 1

C3_PartialStartReleased ==
    pc = "done" =>
        \A s \in ServerNames :
            /\ s \in sessEntered => sessExits[s] = 1
            /\ s \in cmEntered => cmExits[s] = 1

\* the assistant messages of the conversation, by position
AssistantAt == {i \in 1..Len(messages) : messages[i].role = "assistant"}

\* C4: convergence bound: there is never an 11th exchange; the non-converged
\* result is returned only after exactly 10 exchanges, each answered with at least
\* one tool-call request; and once the calls of the tenth exchange have all been
\* dispatched without error, the run makes no further request and leaves the loop
\* by returning the "Failed: ..." text, not by raising.
C4_ConvergenceBound ==
    /\ [](/\ Cardinality(ChatPosts) <= 10
          /\ turn <= 10
          /\ outcome = Returned("Failed: model kept requesting tools without finishing.") =>
                /\ Cardinality(ChatPosts) = 10
                /\ Cardinality(AssistantAt) = 10
                /\ \A i \in AssistantAt : Len(messages[i].tool_calls) >= 1)
    /\ [][ (pc = "gateway" /\ Cardinality(ChatPosts) = 10) =>
              /\ outcome' = Returned("Failed: model kept requesting tools without finishing.")
              /\ requests' = requests
              /\ messages' = messages ]_vars

\* C4 witness: a run has ended non-converged after its tenth exchange
C4_Witness ==
    /\ pc = "done"
    /\ outcome = Returned("Failed: model kept requesting tools without finishing.")
    /\ Cardinality(ChatPosts) = 10
    /\ turn = 10

\* C5: decision rule: a step that receives a response with zero tool-call requests
\* ends the loop with exactly that response's assistant text, appends nothing to
\* the conversation, invokes no tool and makes no request; a response with tool
\* calls never ends the loop as Done; and once a result is returned no exchange,
\* invocation or append follows.
C5_DecisionRule ==
    [][ /\ (pc = "await_gateway" /\ gateway_json' # gateway_json
              /\ extract_assistant_and_tool_calls(gateway_json').calls = <<>>) =>
              /\ outcome' = Returned(extract_assistant_and_tool_calls(gateway_json').text)
              /\ pc' \in {"stop_sessions", "stop_cm"}
              /\ messages' = messages
              /\ invocations' = invocations
              /\ requests' = requests
        /\ (pc = "await_gateway" /\ outcome'.kind = "returned") =>
              /\ gateway_json' \in ScriptedFinalReplies
              /\ extract_assistant_and_tool_calls(gateway_json').calls = <<>>
        /\ outcome.kind = "returned" =>
              /\ messages' = messages
              /\ invocations' = invocations
              /\ requests' = requests
              /\ outcome' = outcome ]_vars

\* C5 witness: the third exchange was answered without tool calls and the run
\* ended with that text, after two turns of tool calls
C5_Witness ==
    /\ pc = "done"
    /\ outcome = Returned("Order processed.")
    /\ Cardinality(ChatPosts) = 3
    /\ Len(invocations) = 2
    /\ Len(messages) = 6

\* messages[i..] is a sequence of groups: an assistant message with n >= 1 tool
\* calls, then n tool messages answering them in order
RECURSIVE GroupsFrom(_, _)
GroupsFrom(msgs, i) ==
    IF i > Len(msgs) THEN TRUE
    ELSE /\ msgs[i].role = "assistant"
         /\ Len(msgs[i].tool_calls) >= 1
         /\ i + Len(msgs[i].tool_calls) <= Len(msgs)
         /\ \A j \in 1..Len(msgs[i].tool_calls) :
               /\ msgs[i + j].role = "tool"
               /\ msgs[i + j].tool_call_id = msgs[i].tool_calls[j].id
         /\ GroupsFrom(msgs, i + Len(msgs[i].tool_calls) + 1)

\* C6: conversation well-formedness: whenever the loop is about to make, or has
\* made, a gateway exchange, the conversation is [system, user] followed by groups
\* of one assistant message with n >= 1 tool calls and n tool messages whose
\* tool_call_id are the ids of those calls, in the same order.
C6_ConversationWellFormed ==
    pc \in {"gateway", "await_gateway"} =>
        /\ Len(messages) >= 2
        /\ messages[1].role = "system"
        /\ messages[2].role = "user"
        /\ GroupsFrom(messages, 3)

\* C6 witness: the third exchange is under way after a turn of two calls and a
\* turn of one call
C6_Witness ==
    /\ pc = "await_gateway"
    /\ turn = 3
    /\ Len(messages) = 7
    /\ Len(messages[3].tool_calls) = 2
    /\ messages[4].tool_call_id = "call_1"
    /\ messages[5].tool_call_id = "call_2"

\* C7: correlation by id: within the tool messages that answer one assistant
\* message the tool_call_id are pairwise distinct, for every gateway response
\* (the ids the gateway does send being distinct), also when entries omit their id.
C7_CallIdsDistinct ==
    pc \in {"gateway", "await_gateway"} =>
        \A i \in AssistantAt :
            \A j, k \in 1..Len(messages[i].tool_calls) :
                j # k => messages[i + j].tool_call_id # messages[i + k].tool_call_id

\* the global names of the catalog of crm_server.py and email_server.py
CatalogNames == {"crm_getCustomerEmail", "email_sendShippingConfirmation"}

\* C8: an unknown tool is recoverable per call: the step that processes a call
\* whose name is not in the catalog invokes no session, appends the tool message
\* with that call's id and the error payload naming the tool, leaves the run
\* unaborted, and goes on to the next call of the turn or, after the last, to the
\* next gateway turn.
C8_UnknownToolRecoverable ==
    [][ (pc = "dispatch" /\ tool_calls[idx].name \notin CatalogNames) =>
          /\ invocations' = invocations
          /\ messages' = Append(messages,
                [role |-> "tool", tool_call_id |-> tool_calls[idx].id,
                 content |-> "{\"error\": \"Unknown tool: " \o tool_calls[idx].name \o "\"}"])
          /\ outcome' = [kind |-> "none"]
          /\ tool_calls' = tool_calls
          /\ idx' = idx + 1
          /\ pc' = IF idx < Len(tool_calls) THEN "dispatch" ELSE "gateway" ]_vars

\* C8 witness: the second exchange is under way after a turn whose first call
\* named an unknown tool and whose second call was invoked
C8_Witness ==
    /\ pc = "await_gateway"
    /\ turn = 2
    /\ outcome.kind = "none"
    /\ Len(messages) = 5
    /\ messages[4].content = "{\"error\": \"Unknown tool: crm.getCustomerEmail\"}"
    /\ Len(invocations) = 1

\* the arguments string the gateway sent for call i of the last response
RawArgumentsAt(i) ==
    IF "choices" \in DOMAIN gateway_json
    THEN Get(GetDict(gateway_json.choices[1].message.tool_calls[i], "function"), "arguments")
    ELSE Get(gateway_json.tool_calls[i], "arguments")

\* C9: malformed arguments never abort the run: the step that processes a call
\* to a catalogued tool whose arguments string is not JSON invokes the session
\* with {"_raw": <that string, unmodified>} and leaves the run unaborted; when the
\* invocation returns, the tool message of that call is appended and the loop goes
\* on to the next call or the next turn.
C9_MalformedArgumentsForwarded ==
    [][ /\ (pc = "dispatch" /\ RawArgumentsAt(idx) = "{orderId: XYZ-789"
              /\ tool_calls[idx].name \in CatalogNames) =>
              /\ pc' = "await_tool"
              /\ outcome' = [kind |-> "none"]
              /\ Len(invocations') = Len(invocations) + 1
              /\ invocations'[Len(invocations')].args =
                    [type |-> "dict", value |-> [_raw |-> "{orderId: XYZ-789"]]
        /\ (pc = "await_tool" /\ RawArgumentsAt(idx) = "{orderId: XYZ-789"
              /\ outcome' = outcome) =>
              /\ Len(messages') = Len(messages) + 1
              /\ SubSeq(messages', 1, Len(messages)) = messages
              /\ messages'[Len(messages')].role = "tool"
              /\ messages'[Len(messages')].tool_call_id = tool_calls[idx].id
              /\ pc' = IF idx < Len(tool_calls) THEN "dispatch" ELSE "gateway" ]_vars

\* C9 witness: the second exchange is under way after a call with malformed
\* arguments was invoked with the raw string
C9_Witness ==
    /\ pc = "await_gateway"
    /\ turn = 2
    /\ outcome.kind = "none"
    /\ Len(invocations) = 1
    /\ invocations[1].args.value = [_raw |-> "{orderId: XYZ-789"]
    /\ messages[Len(messages)].role = "tool"

\* the steps that C10 allows once an exchange is awaited: the loop goes on with the
\* requested calls, or returns the text, or raises without touching the
\* conversation, the invocations or the chat endpoint
ExchangeEnds ==
    \/ /\ pc' = "dispatch"
       /\ outcome' = outcome
       /\ requests' = requests
    \/ /\ pc' \in {"stop_sessions", "stop_cm"}
       /\ outcome'.kind = "returned"
       /\ requests' = requests
    \/ /\ pc' \in {"stop_sessions", "stop_cm"}
       /\ outcome'.kind = "raised"
       /\ messages' = messages
       /\ invocations' = invocations
       /\ Cardinality(ChatPosts') = Cardinality(ChatPosts)

\* C10 as stated: each turn makes exactly one request to the gateway, also when
\* the exchange fails, and after a failed exchange the run makes no further
\* request to the gateway, invokes no tool, appends nothing and ends with an error.
C10_NoRequestAfterFailure ==
    /\ [](Len(requests) = turn)
    /\ [][ pc = "await_gateway" => ExchangeEnds /\ requests' = requests ]_vars
    /\ [][ outcome.kind = "raised" =>
              /\ requests' = requests
              /\ invocations' = invocations
              /\ messages' = messages
              /\ outcome' = outcome ]_vars

\* C10 amended: each turn makes exactly one chat-completion exchange, also when it
\* fails; a failed exchange is never retried and is fatal: the run makes no further
\* chat-completion request (host_agent.py alone, on a status >= 400, first sends
\* one to three GET requests to the model-list endpoints), invokes no tool,
\* appends nothing and ends with the error.
C10_FailedExchangeFatal ==
    /\ [](/\ Cardinality(ChatPosts) = turn
          /\ impl = "run_workflow" => Len(requests) = turn
          /\ Len(requests) <= turn + Len(ProbeUrls)
          /\ \A i \in 1..Len(requests) :
                requests[i].method = "GET" =>
                    /\ i > turn
                    /\ requests[i].url = ProbeUrls[i - turn]
                    /\ outcome.kind = "raised")
    /\ [][ pc = "await_gateway" => ExchangeEnds ]_vars
    /\ [][ outcome.kind = "raised" =>
              /\ requests' = requests
              /\ invocations' = invocations
              /\ messages' = messages
              /\ outcome' = outcome ]_vars

\* C10 witness: a run ended with the gateway's error after its second exchange
\* returned a body that is not JSON
C10_Witness ==
    /\ pc = "done"
    /\ outcome = Raised("Gateway returned non-JSON")
    /\ Cardinality(ChatPosts) = 2
    /\ turn = 2

\* C11: a session error raised while a tool is invoked is fatal: a step that ends
\* an invocation either appends the tool message with the content of the result
\* and goes on, or raises: then no tool message is appended for the failing call
\* and the run is in teardown with an error; after an error no call is invoked, no
\* exchange is made and nothing is appended; and a run that a tool error ended has
\* stopped crm and email once each.
C11_ToolErrorFatal ==
    /\ [][ pc = "await_tool" =>
             \/ /\ outcome' = outcome
                /\ Len(messages') = Len(messages) + 1
                /\ SubSeq(messages', 1, Len(messages)) = messages
                /\ messages'[Len(messages')].role = "tool"
                /\ messages'[Len(messages')].tool_call_id = tool_calls[idx].id
                /\ SubSeq(messages'[Len(messages')].content, 1, 12) = "{\"content\": "
                /\ pc' = IF idx < Len(tool_calls) THEN "dispatch" ELSE "gateway"
             \/ /\ outcome'.kind = "raised"
                /\ messages' = messages
                /\ invocations' = invocations
                /\ requests' = requests
                /\ pc' = "stop_sessions" ]_vars
    /\ [][ outcome.kind = "raised" =>
             /\ outcome' = outcome
             /\ messages' = messages
             /\ invocations' = invocations
             /\ Cardinality(ChatPosts') = Cardinality(ChatPosts)
             /\ pc' \in {"stop_sessions", "stop_cm", "done"} ]_vars
    /\ []((pc = "done" /\ outcome = Raised("session.call_tool")) =>
             \A s \in {Crm, Email} : sessExits[s] = 1 /\ cmExits[s] = 1)

\* C11 witness: the run ended with the error of the first of two requested calls:
\* one invocation, the assistant message last in the conversation, one exchange
C11_Witness ==
    /\ pc = "done"
    /\ outcome = Raised("session.call_tool")
    /\ Len(tool_calls) = 2
    /\ idx = 1
    /\ Len(invocations) = 1
    /\ Len(messages) = 3
    /\ messages[3].role = "assistant"
    /\ Cardinality(ChatPosts) = 1

\* the steps of start_server
InStart == pc \in {"start", "session_enter", "initialize"}

\* C12: a session start failure is fatal: every step of start_server either
\* acquires what it is to acquire (the channel registered and opened, the session
\* entered, the session initialized and recorded) or raises into teardown; a run
\* that ended its start phase with an error has listed no capability, made no
\* exchange, invoked no tool and started no later session, and nothing is started
\* or listed after the error; at its end every registered channel and every
\* recorded session has been stopped once.
C12_StartFailureFatal ==
    /\ [][ InStart =>
             \/ /\ outcome' = outcome
                /\ pc = "start" =>
                      /\ stdio_cm' = Append(stdio_cm, servers[cur])
                      /\ cmEntered' = cmEntered \cup {servers[cur]}
                /\ pc = "session_enter" => sessEntered' = sessEntered \cup {servers[cur]}
                /\ pc = "initialize" => sessions' = Append(sessions, servers[cur])
             \/ /\ outcome'.kind = "raised"
                /\ sessions' = sessions
                /\ pc' \in {"stop_sessions", "stop_cm"} ]_vars
    /\ [][ outcome.kind = "raised" =>
             /\ outcome' = outcome
             /\ stdio_cm' = stdio_cm
             /\ sessions' = sessions
             /\ cmEntered' = cmEntered
             /\ sessEntered' = sessEntered
             /\ listings' = listings
             /\ requests' = requests
             /\ invocations' = invocations ]_vars
    /\ []((outcome.kind = "raised" /\ Len(sessions) < Len(servers)) =>
             /\ listings = <<>>
             /\ tools = <<>>
             /\ requests = <<>>
             /\ invocations = <<>>
             /\ messages = <<>>
             /\ Len(stdio_cm) = Len(sessions) + 1
             /\ pc = "done" =>
                   /\ \A i \in 1..Len(stdio_cm) : cmExits[stdio_cm[i]] = 1
                   /\ \A s \in Started : sessExits[s] = 1)

\* C12 witness: the run ended with the error of email's initialize, crm started
\* and stopped, nothing listed, no exchange
C12_Witness ==
    /\ pc = "done"
    /\ outcome = Raised("session.initialize")
    /\ sessions = <<Crm>>
    /\ stdio_cm = <<Crm, Email>>
    /\ listings = <<>>
    /\ requests = <<>>
    /\ sessExits[Crm] = 1
    /\ cmExits[Crm] = 1 /\ cmExits[Email] = 1

\* what a run shows apart from its event sink: everything but the events handed
\* over and whether the sink raised
obs == <<scenario, impl, pc, cur, stdio_cm, sessions, cmEntered, sessEntered, cmExits,
         sessExits, stopRaised, tool_index, tools, messages, turn, tool_calls, idx,
         outcome, requests, invocations, gateway_json, scriptUsed, listings,
         RUNS>>

\* the steps of the run with no sink attached: no step hands over an event
NoSinkNext ==
    \/ StartChannel
    \/ StartSession
    \/ StartInitializeCore
    \/ ListTools
    \/ SeedConversation
    \/ GatewayRequestCore
    \/ GatewayTransportError
    \/ \E resp \in GatewayResponses : GatewayHttpErrorCore(resp)
    \/ GatewayNonJson
    \/ \E resp \in GatewayResponses : GatewayJsonCore(resp)
    \/ DispatchUnknown
    \/ InvokeToolCore
    \/ ToolReturn
    \/ ToolRaise
    \/ LoopExhausted
    \/ StopSession
    \/ StopChannel

\* C13: event-sink failures never affect the run: with a sink that may raise on
\* any of the events it receives, every step of the run changes the outcome, the
\* requests, the invocations, the conversation and the rest of the run's state
\* exactly as a step of the run with no sink attached does, and no run ends with
\* an error of the sink.
C13_SinkFailuresIgnored ==
    /\ [][NoSinkNext]_obs
    /\ [](outcome.kind = "raised" => outcome.error # "event_sink")

\* C13 witness: a run whose sink raised has ended with the gateway's answer after
\* two invocations, having handed every event to the sink
C13_Witness ==
    /\ pc = "done"
    /\ impl = "run_workflow"
    /\ sink_raised
    /\ outcome = Returned("Order processed.")
    /\ Len(invocations) = 2
    /\ Cardinality(ChatPosts) = 3
    /\ Len(events) = 10

\* C14: the loop notifies the sink of its terminal outcome: when the run of
\* run_workflow.py has ended, the last event handed to the sink is a final-result
\* event if the run returned and a run-error event if it raised.
C14_TerminalOutcomeNotified ==
    (pc = "done" /\ impl = "run_workflow") =>
        /\ events # <<>>
        /\ events[Len(events)].type =
              (IF outcome.kind = "returned" THEN "final" ELSE "error")

\* the errors with which a gateway exchange aborts the run
GatewayFailures ==
    { Raised("Gateway returned non-JSON"),
      Raised("Velocity gateway error status=400"),
      Raised("Velocity gateway error status=500") }

\* C15: every fatal gateway failure is reported to the sink: when a run of
\* run_workflow.py has raised because of a status >= 400 or of a body that does
\* not parse, the last event handed to the sink is a gateway-error event.
C15_GatewayFailureReported ==
    (impl = "run_workflow" /\ outcome \in GatewayFailures) =>
        /\ events # <<>>
        /\ events[Len(events)].type = "gateway_error"

\* the characters of ^[A-Za-z0-9_-]+$
AllowedChars ==
    LET cs == "abcdefghijklmnopqrstuvwxyzABCDEFGHIJKLMNOPQRSTUVWXYZ0123456789_-"
    IN  {SubSeq(cs, i, i) : i \in 1..Len(cs)}

\* s matches ^[A-Za-z0-9_-]+$
MatchesToolNamePattern(s) ==
    /\ s # ""
    /\ \A i \in 1..Len(s) : SubSeq(s, i, i) \in AllowedChars

\* s with every character outside the pattern replaced by '_'
RECURSIVE Sanitized(_)
Sanitized(s) ==
    IF s = "" THEN ""
    ELSE (IF SubSeq(s, 1, 1) \in AllowedChars THEN SubSeq(s, 1, 1) ELSE "_")
             \o Sanitized(SubSeq(s, 2, Len(s)))

\* C16: for every local tool name over an alphabet with characters outside
\* letters, digits, '_' and '-', the global name registered in the catalog and
\* sent to the gateway matches ^[A-Za-z0-9_-]+$, and is <session>_<local name>
\* with every disallowed character replaced by '_'.
C16_GlobalNamesMatchPattern ==
    /\ \A i \in 1..Len(tools) : MatchesToolNamePattern(tools[i].function.name)
    /\ \A n \in DOMAIN tool_index :
          /\ MatchesToolNamePattern(n)
          /\ n = Sanitized(tool_index[n][1] \o "_" \o tool_index[n][2])

\* C17: catalog build detects collisions: the descriptors of the catalog never
\* hold one global name twice (the build of a catalog in which two distinct
\* (session, local name) pairs sanitize to one name fails instead), every
\* descriptor has its own entry in the index, and an exchange is made only with
\* such a catalog.
C17_CollisionsDetected ==
    /\ \A i, j \in 1..Len(tools) :
          i # j => tools[i].function.name # tools[j].function.name
    /\ Cardinality(DOMAIN tool_index) = Len(tools)

\* the gateway response carries the choices shape
HasChoices(gj) == "choices" \in DOMAIN gj /\ gj.choices # <<>>
\* the gateway response carries the flat shape
HasFlat(gj) == "content" \in DOMAIN gj /\ "tool_calls" \in DOMAIN gj

\* the text and the raw tool-call entries of the shape that has priority
PriorityShape(gj) ==
    IF HasChoices(gj)
    THEN [text |-> Get(gj.choices[1].message, "content"),
          entries |-> GetList(gj.choices[1].message, "tool_calls"),
          names |-> [i \in 1..Len(GetList(gj.choices[1].message, "tool_calls")) |->
                        gj.choices[1].message.tool_calls[i].function.name]]
    ELSE [text |-> gj.content,
          entries |-> gj.tool_calls,
          names |-> [i \in 1..Len(gj.tool_calls) |-> gj.tool_calls[i].name]]

\* C18: normalization priority: the step that takes a gateway response in takes
\* the assistant text and the tool calls from the choices shape whenever the
\* response carries a non-empty choices list, also when it carries the flat
\* fields as well; from the flat shape only when the choices shape does not
\* match; and returns the response as opaque text, with no tool call, only when
\* neither matches.
C18_ChoicesShapeWins ==
    [][ (pc = "await_gateway" /\ (pc' = "dispatch" \/ outcome'.kind = "returned")) =>
          LET gj == gateway_json'
              returned == outcome'.kind = "returned"
              text == IF returned THEN outcome'.value
                      ELSE messages'[Len(messages')].content
              calls == IF returned THEN <<>> ELSE messages'[Len(messages')].tool_calls
          IN  IF HasChoices(gj) \/ HasFlat(gj)
              THEN LET want == PriorityShape(gj)
                   IN  /\ text = (IF want.text = None THEN "" ELSE want.text)
                       /\ Len(calls) = Len(want.entries)
                       /\ \A i \in 1..Len(calls) :
                             /\ calls[i].id = want.entries[i].id
                             /\ calls[i].function.name = want.names[i]
                       /\ tool_calls' = IF returned THEN tool_calls
                                        ELSE [i \in 1..Len(calls) |->
                                                 [id |-> calls[i].id,
                                                  name |-> calls[i].function.name,
                                                  arguments |-> calls[i].function.arguments]]
              ELSE /\ returned
                   /\ SubSeq(text, 1, 1) = "{"
                   /\ messages' = messages ]_vars

\* C18 witness: after a turn whose response carried both shapes and whose call
\* was taken from the choices shape, the run ended with the text of the choices
\* shape of a response whose flat fields request a call
C18_Witness ==
    /\ pc = "done"
    /\ outcome = Returned("from choices")
    /\ HasChoices(gateway_json) /\ HasFlat(gateway_json)
    /\ gateway_json.tool_calls # <<>>
    /\ Len(messages) = 4
    /\ messages[3].content = "from choices"
    /\ messages[3].tool_calls[1].id = "call_1"
    /\ messages[4].tool_call_id = "call_1"

\* C19: the conversation is append-only and resent in full: it starts as exactly
\* [system, user]; every step leaves the messages it holds in place and unchanged;
\* every chat request carries the whole conversation of its moment; and the first
\* request carries the two seed messages, every later one more messages than the
\* one before it.
C19_ConversationAppendOnly ==
    /\ [](messages # <<>> =>
             /\ Len(messages) >= 2
             /\ messages[1] = [role |-> "system", content |-> SystemPrompt]
             /\ messages[2] = [role |-> "user", content |-> "Process new order #XYZ-789."])
    /\ [](\A k \in ChatPosts :
             /\ requests[k].messages <= Len(messages)
             /\ k = 1 => requests[k].messages = 2
             /\ k > 1 => requests[k - 1].messages < requests[k].messages)
    /\ [][ messages # <<>> =>
             /\ Len(messages') >= Len(messages)
             /\ SubSeq(messages', 1, Len(messages)) = messages ]_vars
    /\ [][ Cardinality(ChatPosts') > Cardinality(ChatPosts) =>
             /\ messages' = messages
             /\ requests' = Append(requests, requests'[Len(requests')])
             /\ requests'[Len(requests')].messages = Len(messages) ]_vars

\* C19 witness: the third request is under way; the requests carried 2, 4 and 7
\* messages
C19_Witness ==
    /\ pc = "await_gateway"
    /\ Len(requests) = 3
    /\ requests[1].messages = 2
    /\ requests[2].messages = 4
    /\ requests[3].messages = 7
    /\ Len(messages) = 7

\* C20: the catalog is built once and is immutable afterwards: each session is
\* listed exactly once, crm then email, before the first exchange; once the build
\* is over no step lists again or changes the tool list or the index; every chat
\* request carries the whole tool list; and every invocation goes to the
\* (session, local name) pair the index holds for the requested global name.
C20_CatalogImmutable ==
    /\ [](/\ Len(listings) <= Len(servers)
          /\ \A i \in 1..Len(listings) : listings[i] = servers[i]
          /\ requests # <<>> => listings = servers
          /\ \A k \in ChatPosts : requests[k].tools = Len(tools))
    /\ [][ pc \notin {"start", "session_enter", "initialize", "list"} =>
             /\ listings' = listings
             /\ tools' = tools
             /\ tool_index' = tool_index ]_vars
    /\ [][ Len(invocations') > Len(invocations) =>
             /\ tool_calls[idx].name \in DOMAIN tool_index
             /\ invocations'[Len(invocations')].server = tool_index[tool_calls[idx].name][1]
             /\ invocations'[Len(invocations')].tool = tool_index[tool_calls[idx].name][2] ]_vars

\* C20 witness: the third exchange is under way after two invocations, both
\* sessions listed once and every request carrying the two tools
C20_Witness ==
    /\ pc = "await_gateway"
    /\ turn = 3
    /\ listings = <<Crm, Email>>
    /\ Len(tools) = 2
    /\ Len(invocations) = 2
    /\ \A k \in 1..3 : requests[k].tools = 2

\* the tool messages that carry the result of a completed invocation
ResultMessages ==
    {i \in 1..Len(messages) :
        /\ messages[i].role = "tool"
        /\ SubSeq(messages[i].content, 1, 12) = "{\"content\": "}

\* the invocations that were started and have neither returned nor raised
InFlight ==
    Len(invocations) - Cardinality(ResultMessages)
        - (IF outcome = Raised("session.call_tool") THEN 1 ELSE 0)

\* C21: tool dispatch is strictly sequential: at most one invocation is in flight,
\* and one is in flight exactly while the loop awaits call_tool; an invocation
\* starts from the loop over the requested calls, one at a time, for the call at
\* idx, when every earlier call of the turn has its tool message appended, in
\* request order, behind the assistant message; and while an invocation is in
\* flight no request is sent to the gateway and no other invocation starts.
C21_SequentialDispatch ==
    /\ [](InFlight \in {0, 1} /\ (InFlight = 1 <=> pc = "await_tool"))
    /\ [][ invocations' # invocations =>
             /\ pc = "dispatch"
             /\ InFlight = 0
             /\ Len(invocations') = Len(invocations) + 1
             /\ SubSeq(invocations', 1, Len(invocations)) = invocations
             /\ invocations'[Len(invocations')].tool
                    = tool_index[tool_calls[idx].name][2]
             /\ Len(messages) > idx
             /\ messages[Len(messages) - idx + 1].role = "assistant"
             /\ \A k \in 1..(idx - 1) :
                   LET m == messages[Len(messages) - idx + 1 + k]
                   IN  m.role = "tool" /\ m.tool_call_id = tool_calls[k].id ]_vars
    /\ [][ InFlight = 1 =>
             /\ requests' = requests
             /\ Len(invocations') = Len(invocations) ]_vars

\* C21 witness: the second call of a turn is in flight, and the tool message of
\* the first, completed, call is the last message of the conversation
C21_Witness ==
    /\ pc = "await_tool"
    /\ idx = 2
    /\ Len(tool_calls) = 2
    /\ Len(invocations) = 2
    /\ InFlight = 1
    /\ messages[Len(messages)].role = "tool"
    /\ messages[Len(messages)].tool_call_id = tool_calls[1].id

\* field k of d is there and is neither null nor empty
Present(d, k) == k \in DOMAIN d /\ d[k] # None /\ d[k] # ""

\* the raw tool-call entries of the shape a response matched, and its content
MatchedEntries(gj) ==
    IF HasChoices(gj) THEN GetList(gj.choices[1].message, "tool_calls")
    ELSE gj.tool_calls
MatchedContent(gj) ==
    IF HasChoices(gj) THEN gj.choices[1].message.content ELSE gj.content

\* C23: normalization defaults: the step that takes in a response of a matched
\* shape that requests tool calls makes one normalized request per raw entry, in
\* the order of the entries; the request has the entry's id, or "toolcall_1" when
\* the id is missing or empty, and the entry's arguments string, or "{}" when it
\* is missing or empty; the assistant text is the content, or the empty text when
\* the content is null; a run that returns the text of a matched response with a
\* null content returns the empty text; and a request whose arguments are "{}" is
\* invoked with an empty parameter object.
C23_NormalizationDefaults ==
    /\ [][ (pc = "await_gateway" /\ pc' = "dispatch") =>
             LET gj == gateway_json'
                 raw == MatchedEntries(gj)
             IN  /\ HasChoices(gj) \/ HasFlat(gj)
                 /\ Len(tool_calls') = Len(raw)
                 /\ \A i \in 1..Len(raw) :
                       LET fn == IF HasChoices(gj) THEN raw[i].function ELSE raw[i]
                       IN  /\ tool_calls'[i].id = (IF Present(raw[i], "id") THEN raw[i].id
                                                   ELSE "toolcall_1")
                           /\ tool_calls'[i].arguments
                                 = (IF Present(fn, "arguments") THEN fn.arguments
                                    ELSE "{}")
                           /\ tool_calls'[i].name = fn.name
                 /\ messages'[Len(messages')].role = "assistant"
                 /\ messages'[Len(messages')].content
                       = (IF MatchedContent(gj) = None THEN "" ELSE MatchedContent(gj)) ]_vars
    /\ [][ (pc = "await_gateway" /\ outcome'.kind = "returned"
               /\ (HasChoices(gateway_json') \/ HasFlat(gateway_json'))
               /\ MatchedContent(gateway_json') = None) =>
             outcome'.value = "" ]_vars
    /\ [][ (invocations' # invocations /\ tool_calls[idx].arguments = "{}") =>
             /\ invocations'[Len(invocations')].args.type = "dict"
             /\ DOMAIN invocations'[Len(invocations')].args.value = {} ]_vars

\* C23 witness: the second of two requests is being invoked with an empty
\* parameter object; the first entry had an empty id and no arguments, the
\* second no id and empty arguments, and the content was null
C23_Witness ==
    /\ pc = "await_tool"
    /\ idx = 2
    /\ gateway_json = ChoicesReply(None, <<CallEmptyId, CallNoIdEmptyArgs>>)
    /\ tool_calls = <<[id |-> "toolcall_1", name |-> "crm_getCustomerEmail",
                       arguments |-> "{}"],
                      [id |-> "toolcall_1", name |-> "email_sendShippingConfirmation",
                       arguments |-> "{}"]>>
    /\ invocations[Len(invocations)]
          = [server |-> Email, tool |-> "sendShippingConfirmation",
             args |-> [type |-> "dict", value |-> <<>>]]
    /\ \E i \in 1..Len(messages) :
          messages[i].role = "assistant" /\ messages[i].content = ""

\* the first 2000 characters of the serialization of a response
PreviewOf(gj) ==
    IF Len(DumpsGateway(gj)) <= 2000 THEN DumpsGateway(gj)
    ELSE SubSeq(DumpsGateway(gj), 1, 2000)

EventsOf(t) == {i \in 1..Len(events) : events[i].type = t}

\* the tool-call events, in the order they were handed over
RECURSIVE ToolCallEventsFrom(_)
ToolCallEventsFrom(i) ==
    IF i > Len(events) THEN <<>>
    ELSE (IF events[i].type = "tool_call" THEN <<events[i]>> ELSE <<>>)
             \o ToolCallEventsFrom(i + 1)

\* C25: the order of the events the sink of run_order_workflow sees: the
\* session-start events, crm's then email's, come first, before any
\* gateway-request event; every post to the gateway is announced by a
\* gateway-request event, and every assistant event directly follows the
\* gateway-request event of its turn; every successful exchange, the final one
\* included, hands over one assistant event with the text and the calls; each
\* invocation is directly preceded by one tool-call event with the name and the
\* parameters of the call, so that the tool-call events are, in order, the
\* invocations; and a call of an unknown tool hands over no event.
C25_EventOrder ==
    /\ [](impl = "run_workflow" =>
            /\ \A i \in EventsOf("mcp_server_started") :
                  /\ i <= Len(sessions)
                  /\ events[i].name = servers[i]
            /\ \A i \in EventsOf("gateway_request") :
                  /\ i > Len(servers)
                  /\ Cardinality(EventsOf("mcp_server_started")) = Len(servers)
            /\ Cardinality(EventsOf("gateway_request")) = Cardinality(ChatPosts)
            /\ \A i \in EventsOf("assistant") :
                  i > 1 /\ events[i - 1].type = "gateway_request"
            /\ LET tce == ToolCallEventsFrom(1)
               IN  /\ Len(tce) = Len(invocations)
                   /\ \A k \in 1..Len(tce) :
                         /\ tool_index[tce[k].name]
                               = <<invocations[k].server, invocations[k].tool>>
                         /\ tce[k].args = invocations[k].args)
    /\ [][ (impl = "run_workflow" /\ pc = "initialize" /\ sessions' # sessions) =>
             events' = Append(events, [type |-> "mcp_server_started",
                                       name |-> servers[cur]]) ]_vars
    /\ [][ (impl = "run_workflow" /\ pc = "await_gateway"
               /\ (pc' = "dispatch" \/ outcome'.kind = "returned")) =>
             /\ Len(events') = Len(events) + 1
             /\ SubSeq(events', 1, Len(events)) = events
             /\ events'[Len(events')].type = "assistant"
             /\ events'[Len(events')].content
                   = (IF outcome'.kind = "returned" THEN outcome'.value
                      ELSE messages'[Len(messages')].content)
             /\ events'[Len(events')].tool_calls
                   = (IF outcome'.kind = "returned" THEN <<>> ELSE tool_calls') ]_vars
    /\ [][ (impl = "run_workflow" /\ invocations' # invocations) =>
             events' = Append(events,
                              [type |-> "tool_call", name |-> tool_calls[idx].name,
                               args |-> invocations'[Len(invocations')].args]) ]_vars
    /\ [][ (pc = "dispatch" /\ tool_calls[idx].name \notin DOMAIN tool_index) =>
             events' = events ]_vars

\* C25 witness: a run of run_order_workflow ended after a turn with a call of an
\* unknown tool and an invocation and a final turn: two session-start events, then
\* gateway request and assistant, one tool-call event, gateway request and
\* assistant
C25_Witness ==
    /\ pc = "done"
    /\ impl = "run_workflow"
    /\ outcome = Returned("Order processed.")
    /\ Len(tool_calls) = 2
    /\ Len(invocations) = 1
    /\ [i \in 1..Len(events) |-> events[i].type]
          = <<"mcp_server_started", "mcp_server_started", "gateway_request",
              "assistant", "tool_call", "gateway_request", "assistant">>
    /\ events[1].name = Crm
    /\ events[2].name = Email
    /\ events[7].tool_calls = <<>>

\* the assistant messages that request at least one tool call
ToolTurns ==
    {i \in 1..Len(messages) :
        messages[i].role = "assistant" /\ Len(messages[i].tool_calls) >= 1}

\* C27: whatever the gateway answers, a run performs at most 10 chat-completion
\* exchanges, and the k-th exchange is made in a turn that exactly k-1 turns
\* precede, each of which requested at least one tool call: when the k-th post is
\* sent, the conversation holds exactly k-1 assistant messages, each with at least
\* one tool call, and the turn counter goes from k-1 to k.
C27_ExchangeBound ==
    /\ [](Cardinality(ChatPosts) <= 10)
    /\ [](Cardinality(ChatPosts) = turn)
    /\ [][ Cardinality(ChatPosts') # Cardinality(ChatPosts) =>
             /\ Cardinality(ChatPosts') = Cardinality(ChatPosts) + 1
             /\ requests'[Len(requests')].method = "POST"
             /\ turn' = turn + 1
             /\ Cardinality(AssistantAt) = Cardinality(ChatPosts)
             /\ ToolTurns = AssistantAt
             /\ messages' = messages ]_vars

\* C27 witness: the tenth exchange is under way, after nine turns that each
\* requested a tool call
C27_Witness ==
    /\ pc = "await_gateway"
    /\ Cardinality(ChatPosts) = 10
    /\ Cardinality(ToolTurns) = 9
    /\ turn = 10

\* the stop of server s has begun: its session or its channel has been exited
StopBegun(s) == sessExits[s] > 0 \/ cmExits[s] > 0

\* teardown has begun: the try block was left, with a result or an error
TeardownBegun == outcome.kind # "none" \/ InTeardown \/ pc = "done"

\* C28: no activity outside the session lifetime: a tool is invoked only on a
\* session whose start has completed and whose stop has not begun, before
\* teardown; a server's capabilities are listed only on such a session; a request
\* is sent to the gateway only while every session is started and none is
\* stopped; and once teardown has begun, on any exit path, no request is sent, no
\* capability is listed and no tool is invoked ever again, and the run stays in
\* teardown until it is done.
C28_NoActivityOutsideLifetime ==
    /\ [][ invocations' # invocations =>
             LET s == invocations'[Len(invocations')].server
             IN  /\ ~TeardownBegun
                 /\ s \in Started
                 /\ s \in sessEntered
                 /\ ~StopBegun(s) ]_vars
    /\ [][ listings' # listings =>
             LET s == listings'[Len(listings')]
             IN  /\ ~TeardownBegun
                 /\ s \in Started
                 /\ ~StopBegun(s) ]_vars
    /\ [][ requests' # requests =>
             /\ ~TeardownBegun
             /\ Started = ServerNames
             /\ \A s \in ServerNames : ~StopBegun(s) ]_vars
    /\ [][ TeardownBegun =>
             /\ requests' = requests
             /\ listings' = listings
             /\ invocations' = invocations
             /\ messages' = messages
             /\ outcome' = outcome
             /\ pc' \in {"stop_sessions", "stop_cm", "done"} ]_vars
    /\ [](\A s \in ServerNames : StopBegun(s) => TeardownBegun)

\* C28 witness: teardown is under way after a tool error: both sessions are
\* exited, the channels not yet; one tool was invoked, on crm, before
C28_Witness ==
    /\ pc = "stop_cm"
    /\ outcome = Raised("session.call_tool")
    /\ Len(invocations) = 1
    /\ invocations[1].server = Crm
    /\ sessExits[Crm] = 1 /\ sessExits[Email] = 1
    /\ cmExits[Crm] = 0
    /\ listings = <<Crm, Email>>

\* C29: the parameters handed to a tool session are always a mapping: every
\* invocation carries a JSON object, whatever the arguments string of the request
\* was.
C29_ArgumentsAreMappings ==
    \A i \in 1..Len(invocations) : invocations[i].args.type = "dict"

\* The steps of the loop as implementation i takes them, with no event sink: the
\* two implementations share every step but what they send after an error status.
StepOf(i) ==
    \/ StartChannel
    \/ StartSession
    \/ StartInitializeCore
    \/ ListTools
    \/ SeedConversation
    \/ GatewayRequestCore
    \/ GatewayTransportError
    \/ \E resp \in GatewayResponses : HttpErrorRaise(resp) /\ GatewayProbes(i)
    \/ GatewayNonJson
    \/ \E resp \in GatewayResponses : GatewayJsonCore(resp)
    \/ DispatchUnknown
    \/ InvokeToolCore
    \/ ToolReturn
    \/ ToolRaise
    \/ LoopExhausted
    \/ StopSession
    \/ StopChannel

Terminated ==
    /\ pc = "done"
    /\ outcome.kind \in {"returned", "raised"}
    /\ \A i \in 1..Len(stdio_cm) : cmExits[stdio_cm[i]] >= 1
    /\ \A s \in Started : sessExits[s] >= 1

\* C26: termination: when every operation the run awaits eventually completes or
\* fails, every run eventually ends with a terminal outcome (the text of the
\* gateway, the text of the non-converged run, or an error) and teardown
\* completed, and stays there.
C26_Termination == <>[]Terminated

\* C26 witness: a run that did not converge has ended after ten exchanges, with
\* both sessions and both channels exited
C26_Witness ==
    /\ Terminated
    /\ outcome = Returned(FailedText)
    /\ turn = 10
    /\ Cardinality(ChatPosts) = 10
    /\ sessExits[Crm] = 1 /\ sessExits[Email] = 1
    /\ cmExits[Crm] = 1 /\ cmExits[Email] = 1

\* C22: run_order_workflow is callable from the web UI: the call that
\* _run_background makes binds, so that no run created through create_run is
\* failed by the call itself; a run whose settings load leaves 'running' only
\* after the orchestration was entered.
C22_WorkflowCallable ==
    \A run_id \in 1..Len(RUNS) :
        /\ RUNS[run_id].error # UnexpectedKeyword("order_id")
        /\ (RUNS[run_id].status = "failed" /\ RUNS[run_id].error \notin SettingsResults)
              => pc # "idle"

\* the last entry of the log of a run record
LastLog(run) == run.logs[Len(run.logs)]

\* C31: the state machine of a run record: a record is created with status
\* 'running' and a log that holds the run_started event alone; its status is
\* 'running', 'succeeded' or 'failed', changes only from 'running', to 'succeeded'
\* or 'failed', and a record that has left 'running' never changes again; records
\* are never removed and every log only grows at its end, its first entry being
\* run_started; in status 'running' neither final nor error is set; in status
\* 'succeeded' final is set, error is not, and the last log entry is a final
\* event with that text; in status 'failed' error is set, final is not, and the
\* last log entry is an error event with that error; and every run eventually
\* leaves 'running'.
C31_RunRecordStateMachine ==
    /\ [](\A run_id \in 1..Len(RUNS) :
             LET run == RUNS[run_id]
             IN  /\ run.status \in {"running", "succeeded", "failed"}
                 /\ run.logs # <<>>
                 /\ run.logs[1].type = "run_started"
                 /\ run.status = "running" => (run.final = None /\ run.error = None)
                 /\ run.status = "succeeded" =>
                       /\ run.final # None
                       /\ run.error = None
                       /\ LastLog(run).type = "final"
                       /\ LastLog(run).content = run.final
                 /\ run.status = "failed" =>
                       /\ run.error # None
                       /\ run.final = None
                       /\ LastLog(run).type = "error"
                       /\ LastLog(run).error = run.error)
    /\ [][ /\ Len(RUNS') >= Len(RUNS)
           /\ \A run_id \in 1..Len(RUNS) :
                 /\ Len(RUNS'[run_id].logs) >= Len(RUNS[run_id].logs)
                 /\ SubSeq(RUNS'[run_id].logs, 1, Len(RUNS[run_id].logs))
                       = RUNS[run_id].logs
                 /\ RUNS[run_id].status # "running" => RUNS'[run_id] = RUNS[run_id]
                 /\ RUNS'[run_id].status # RUNS[run_id].status =>
                       RUNS'[run_id].status \in {"succeeded", "failed"}
           /\ \A run_id \in (Len(RUNS) + 1)..Len(RUNS') :
                 /\ RUNS'[run_id].status = "running"
                 /\ Len(RUNS'[run_id].logs) = 1
                 /\ RUNS'[run_id].logs[1].type = "run_started" ]_vars
    /\ \A run_id \in 1..MaxRuns :
          (run_id <= Len(RUNS) /\ RUNS[run_id].status = "running")
              ~> (run_id <= Len(RUNS) /\ RUNS[run_id].status # "running")

\* C31 witness: of two runs created, the first has failed for the call of the
\* workflow, its log holding run_started and the error event, and the second is
\* still running
C31_Witness ==
    /\ Len(RUNS) = 2
    /\ RUNS[1].status = "failed"
    /\ RUNS[1].error = UnexpectedKeyword("order_id")
    /\ RUNS[1].final = None
    /\ [i \in 1..Len(RUNS[1].logs) |-> RUNS[1].logs[i].type] = <<"run_started", "error">>
    /\ RUNS[1].logs[1].order_id = "ABC-1"
    /\ RUNS[2].status = "running"
    /\ Len(RUNS[2].logs) = 1

====
